---- MODULE Spec2Model ----
(***************************************************************************)
(* The Gateway of src/src/core/config.js: per-session promise-chain        *)
(* locking (handleMessage), the unit of work (_processMessage), the agent  *)
(* dispatcher (_callAgent), the JSONL session store (_loadSession,         *)
(* _saveSession, _sessionPath) and the sweep (cleanExpiredSessions).       *)
(*                                                                         *)
(* Strings are sequences of symbols.  A symbol is a TLA+ string standing   *)
(* for one character ("NL" newline, "BS" backslash, "QT" double quote) or  *)
(* for an unbroken run of characters of the class [a-zA-Z0-9_-].           *)
(*                                                                         *)
(* Scheduling is that of the JavaScript event loop: a macrotask (an        *)
(* inbound event, the completion of the HTTP call, the sweep timer) runs   *)
(* only when the microtask queue mq is empty; promise reactions are        *)
(* microtasks, run first-in first-out.                                     *)
(***************************************************************************)
EXTENDS Integers, Sequences, FiniteSets, TLC

\* ------------------------------------------------------------------ bounds
MaxMsgs == 2
MaxTime == 2
MaxHistory == 2
MaxRtTurns == 2
MaxRtLen == 1

\* ------------------------------------------------------- program constants
DefaultMaxHistory == 20
\* _callAgent, line 283: history.slice(-10)
PayloadTurns == 10

Undef == "undefined"
Null == "null"
NL == "NL"
BS == "BS"
QT == "QT"

\* --------------------------------------------------------------- the inputs
\* The conversations of the model: two webchat users whose ids differ in one
\* character outside [a-zA-Z0-9_-] (webchat.js builds chatId as web_<userId>).
Chats ==
  { [channel |-> "webchat", chatId |-> <<"web_", "a", ".", "b">>, sender |-> "a.b",
     chatName |-> "WebChat"],
    [channel |-> "webchat", chatId |-> <<"web_", "a", "_", "b">>, sender |-> "a_b",
     chatName |-> "WebChat"] }

\* Two conversations on different channels whose files differ: a webchat user
\* and a Telegram chat (telegram.js, lines 50-55: chatId String(chat.id), the
\* platform's message time as timestamp, taken here as the time of receipt).
MultiChats ==
  { [channel |-> "webchat", chatId |-> <<"web_", "a", ".", "b">>, sender |-> "a.b",
     chatName |-> "WebChat"],
    [channel |-> "telegram", chatId |-> <<"7">>, sender |-> "Ann", chatName |-> "Ann"] }

AllChats == Chats \cup MultiChats

\* The configurations of the model: a process-wide default endpoint and no
\* per-channel override, or no endpoint at all.
Configs ==
  { [endpoint |-> "http://default", maxHistory |-> MaxHistory,
     channels |-> [webchat |-> [endpoint |-> ""]]],
    [endpoint |-> "", maxHistory |-> MaxHistory,
     channels |-> [webchat |-> [endpoint |-> ""]]] }

\* Configurations with a per-channel override for webchat and none for
\* telegram, with and without a process-wide default.
ConfigsMulti ==
  { [endpoint |-> "http://default", maxHistory |-> MaxHistory,
     channels |-> [webchat |-> [endpoint |-> "http://web"], telegram |-> [endpoint |-> ""]]],
    [endpoint |-> "", maxHistory |-> MaxHistory,
     channels |-> [webchat |-> [endpoint |-> "http://web"], telegram |-> [endpoint |-> ""]]] }

\* The text of the i-th submitted event: a character that JSON escapes (cycling
\* through newline, backslash, quote, none) followed by the event's number.
SpecialChars == <<NL, BS, QT, "n">>
TextOf(i) == <<SpecialChars[((i - 1) % Len(SpecialChars)) + 1], ToString(i)>>

\* What the agent answers to the i-th event, and the token it may hand out.
ReplyOf(i) == <<"re", ToString(i)>>
TokenOf(i) == "T" \o ToString(i)

\* ------------------------------------------------------------ session keys
SessionKey(channel, chatId) == <<channel, ":">> \o chatId

KeySet == { SessionKey(c.channel, c.chatId) : c \in AllChats }

\* The symbols made only of characters of the class [a-zA-Z0-9_-].
SafeChars == {"webchat", "telegram", "web_", "a", "b", "7", "_", "-"}

Sanitize(sessionKey) ==
  [i \in 1..Len(sessionKey) |->
     IF sessionKey[i] \in SafeChars THEN sessionKey[i] ELSE "_"]

SessionPath(sessionKey) == Sanitize(sessionKey) \o <<".jsonl">>

PathSet == { SessionPath(k) : k \in KeySet }

\* ------------------------------------------------------------------- turns
Turn(role, content, sender, timestamp, channel, conversationId) ==
  [role |-> role, content |-> content, sender |-> sender,
   timestamp |-> timestamp, channel |-> channel, conversationId |-> conversationId]

UserTurn(text, sender, timestamp, channel) ==
  Turn("user", text, sender, timestamp, channel, Undef)

AssistantTurn(reply, timestamp) ==
  Turn("assistant", reply, Undef, timestamp, Undef, Undef)

\* ------------------------------------------------------ JSON lines on disk
TimeStrings == { ToString(n) : n \in 0..(MaxTime + 1) }
ParseNumber(s) == CHOOSE n \in 0..(MaxTime + 1) : ToString(n) = s

\* Mutant of EscapeString: the characters are written as they are.
EscapeStringRaw(s) == s

RECURSIVE EscapeString(_)
EscapeString(s) ==
  IF s = <<>> THEN <<>>
  ELSE LET c == Head(s)
           e == IF c = NL THEN <<BS, "n">>
                ELSE IF c = BS THEN <<BS, BS>>
                ELSE IF c = QT THEN <<BS, QT>>
                ELSE <<c>>
       IN e \o EscapeString(Tail(s))

\* The escaped body of a JSON string literal is well formed.
RECURSIVE ValidEscaped(_)
ValidEscaped(s) ==
  IF s = <<>> THEN TRUE
  ELSE IF Head(s) = BS
       THEN Len(s) >= 2 /\ s[2] \in {"n", BS, QT} /\ ValidEscaped(Tail(Tail(s)))
       ELSE Head(s) \notin {QT, NL} /\ ValidEscaped(Tail(s))

RECURSIVE UnescapeString(_)
UnescapeString(s) ==
  IF s = <<>> THEN <<>>
  ELSE IF Head(s) = BS
       THEN LET c == IF s[2] = "n" THEN NL ELSE s[2]
            IN <<c>> \o UnescapeString(Tail(Tail(s)))
       ELSE <<Head(s)>> \o UnescapeString(Tail(s))

\* JSON.stringify of a turn: the fields that are present, the content as an
\* escaped string literal.  An absent field is written as Undef.
JSONstringify(h) ==
  <<"{", h.role, h.sender, h.channel,
    IF h.timestamp < 0 THEN Undef ELSE ToString(h.timestamp),
    h.conversationId, QT>>
  \o EscapeString(h.content) \o <<QT, "}">>

HeaderLen == Len(<<"{", "role", "sender", "channel", "timestamp", "conversationId", QT>>)

\* JSON.parse accepts the line.
JSONvalid(l) ==
  /\ Len(l) >= HeaderLen + 2
  /\ l[1] = "{"
  /\ l[2] \in {"user", "assistant"}
  /\ l[5] \in TimeStrings \cup {Undef}
  /\ l[HeaderLen] = QT
  /\ l[Len(l)] = "}"
  /\ l[Len(l) - 1] = QT
  /\ ValidEscaped(SubSeq(l, HeaderLen + 1, Len(l) - 2))

JSONparse(l) ==
  Turn(l[2], UnescapeString(SubSeq(l, HeaderLen + 1, Len(l) - 2)), l[3],
       IF l[5] = Undef THEN -1 ELSE ParseNumber(l[5]), l[4], l[6])

RECURSIVE JoinLines(_)
JoinLines(ls) ==
  IF ls = <<>> THEN <<>>
  ELSE IF Len(ls) = 1 THEN ls[1]
  ELSE ls[1] \o <<NL>> \o JoinLines(Tail(ls))

\* String.split('\n'): the pieces between newlines, empty ones included.
RECURSIVE SplitLines(_, _)
SplitLines(s, cur) ==
  IF s = <<>> THEN <<cur>>
  ELSE IF Head(s) = NL THEN <<cur>> \o SplitLines(Tail(s), <<>>)
  ELSE SplitLines(Tail(s), Append(cur, Head(s)))

FilterBoolean(ls) == SelectSeq(ls, LAMBDA l : l # <<>>)

\* _saveSession, line 353: the data written.
SessionData(history) ==
  JoinLines([i \in 1..Len(history) |-> JSONstringify(history[i])]) \o <<NL>>

\* ------------------------------------------------------------ session store
NoFile == [exists |-> FALSE, data |-> <<>>]

EmptySession(t) == [history |-> <<>>, conversationId |-> Null, lastActivity |-> t]

NoObject == [history |-> <<>>, conversationId |-> Null, lastActivity |-> -1]

\* [...history].reverse().find(h => h.role === 'assistant')
LastAssistant(history) ==
  LET idx == { i \in 1..Len(history) : history[i].role = "assistant" }
  IN IF idx = {} THEN 0 ELSE CHOOSE i \in idx : \A j \in idx : j <= i

\* Mutant of LoadFallback: the lines parsed before the failing one are kept.
LoadFallbackPartial(lines, t) ==
  LET bad == CHOOSE i \in 1..Len(lines) :
               ~JSONvalid(lines[i]) /\ \A j \in 1..(i - 1) : JSONvalid(lines[j])
  IN [history |-> [i \in 1..(bad - 1) |-> JSONparse(lines[i])],
      conversationId |-> Null, lastActivity |-> t]

\* _loadSession, lines 339-342: the catch block replaces the session.
LoadFallback(lines, t) == EmptySession(t)

\* _loadSession, lines 326-343: the session read from a file.
SessionFromFile(file, t) ==
  IF ~file.exists THEN EmptySession(t)
  ELSE LET lines == FilterBoolean(SplitLines(file.data, <<>>))
       IN IF \E i \in 1..Len(lines) : ~JSONvalid(lines[i])
          THEN LoadFallback(lines, t)
          ELSE LET history == [i \in 1..Len(lines) |-> JSONparse(lines[i])]
                   la == LastAssistant(history)
               IN [history |-> history,
                   conversationId |->
                     IF la # 0 /\ history[la].conversationId \notin {Undef, Null, ""}
                     THEN history[la].conversationId ELSE Null,
                   lastActivity |-> t]

\* fs.writeFileSync, line 354: it completes, or it throws when the file cannot
\* be opened and leaves the file as it was.
WriteOutcomes == {"ok", "eacces"}

WriteFile(d, path, data, outcome) ==
  IF outcome = "ok" THEN [d EXCEPT ![path] = [exists |-> TRUE, data |-> data]]
  ELSE d

\* ------------------------------------------------------------ configuration
MaxHistoryOf(cfg) == IF cfg.maxHistory = 0 THEN DefaultMaxHistory ELSE cfg.maxHistory

\* history.slice(-maxHistory) when the history is longer than maxHistory.
TruncateHistory(history, maxHistory) ==
  IF Len(history) > maxHistory
  THEN SubSeq(history, Len(history) - maxHistory + 1, Len(history))
  ELSE history

\* Mutant of ResolveEndpoint: the process-wide default comes first.
ResolveEndpointDefaultFirst(cfg, channel) ==
  LET chEndpoint == IF channel \in DOMAIN cfg.channels
                    THEN cfg.channels[channel].endpoint ELSE ""
  IN IF cfg.endpoint # "" THEN cfg.endpoint ELSE chEndpoint

ResolveEndpoint(cfg, channel) ==
  LET chEndpoint == IF channel \in DOMAIN cfg.channels
                    THEN cfg.channels[channel].endpoint ELSE ""
  IN IF chEndpoint # "" THEN chEndpoint ELSE cfg.endpoint

\* -------------------------------------------------------------------- agent
\* What the HTTP call of event i can end as: fetch throws (network error or the
\* 60 s timeout), a non-2xx status, a body that is not JSON, or a JSON body with
\* or without a reply and with or without a token.
HttpOutcomes(i) ==
  { [kind |-> "throw", reply |-> <<>>, conversationId |-> Null],
    [kind |-> "status", reply |-> <<>>, conversationId |-> Null],
    [kind |-> "badjson", reply |-> <<>>, conversationId |-> Null],
    [kind |-> "ok", reply |-> <<>>, conversationId |-> Null],
    [kind |-> "ok", reply |-> <<>>, conversationId |-> TokenOf(i)],
    [kind |-> "ok", reply |-> ReplyOf(i), conversationId |-> Null],
    [kind |-> "ok", reply |-> ReplyOf(i), conversationId |-> TokenOf(i)] }

\* Mutant of AgentResponse: the try/catch is missing, and an error of fetch or
\* of response.json() leaves _callAgent as an exception.
AgentResponseNoCatch(http) ==
  IF http.kind \in {"throw", "badjson"}
  THEN [threw |-> TRUE, isNull |-> TRUE, reply |-> <<>>, conversationId |-> Null]
  ELSE IF http.kind = "status"
  THEN [threw |-> FALSE, isNull |-> TRUE, reply |-> <<>>, conversationId |-> Null]
  ELSE [threw |-> FALSE, isNull |-> FALSE, reply |-> http.reply,
        conversationId |-> http.conversationId]

\* _callAgent, lines 293-315: what the call returns, null (isNull) or reply and
\* conversationId; threw says that it ended with an exception instead.
AgentResponse(http) ==
  IF http.kind # "ok"
  THEN [threw |-> FALSE, isNull |-> TRUE, reply |-> <<>>, conversationId |-> Null]
  ELSE [threw |-> FALSE, isNull |-> FALSE, reply |-> http.reply,
        conversationId |-> http.conversationId]

\* _processMessage, lines 232-240: the context handed to _callAgent.
Context(tk, session) ==
  [platform |-> tk.channel, chatId |-> tk.chatId,
   chatName |-> IF tk.chatName = "" THEN tk.sender ELSE tk.chatName,
   sender |-> tk.sender, history |-> session.history,
   conversationId |-> session.conversationId]

\* Mutant of SliceLast: the first k turns instead of the last k.
SliceFirst(history, k) ==
  SubSeq(history, 1, IF Len(history) < k THEN Len(history) ELSE k)

\* Array.prototype.slice(-k)
SliceLast(history, k) ==
  SubSeq(history, (IF Len(history) > k THEN Len(history) - k ELSE 0) + 1, Len(history))

\* h => ({ role: h.role, content: h.content })
ReduceTurn(h) == [role |-> h.role, content |-> h.content]

NoBody == [message |-> <<>>, platform |-> "", chatId |-> <<>>, chatName |-> "",
           sender |-> "", conversationId |-> Null, history |-> <<>>]

\* _callAgent, lines 276-287: the body posted to the agent.
CallAgentBody(context) ==
  LET last == SliceLast(context.history, PayloadTurns)
  IN [message |-> context.history[Len(context.history)].content,
      platform |-> context.platform, chatId |-> context.chatId,
      chatName |-> context.chatName, sender |-> context.sender,
      conversationId |-> IF context.conversationId \in {Undef, Null, ""}
                         THEN Null ELSE context.conversationId,
      history |-> [i \in 1..Len(last) |-> ReduceTurn(last[i])]]

\* --------------------------------------------------------------------- state
VARIABLES
  config,      \* this.config
  now,         \* Date.now()
  locks,       \* this.locks: session key -> the task whose promise is the tail (0: no entry)
  sessions,    \* this.sessions: session key -> session object (0: no entry)
  heap,        \* the session objects, by the task that created them
  disk,        \* the files of sessionsDir, by path
  tasks,       \* the handleMessage calls so far, in order of submission
  mq,          \* the microtask queue
  startLog,    \* per key, the units in the order they started
  doneLog,     \* per key, the units in the order their promise settled
  deliverLog,  \* per key, the units in the order the caller received the outcome
  savedToken,  \* per key, the conversationId of the session at its last completed save
  writer,      \* per path, the session key of the last completed save (<<>>: none)
  lastData,    \* the unit whose agent call returned last, and the body of the response
  evicted,     \* the units whose cache entry the sweep removed during their agent call
  rtPc,        \* round trip: "init", "saved", "loaded"
  rtHistory,   \* round trip: the history saved
  rtFile,      \* round trip: the file
  rtLoaded,    \* round trip: the session loaded
  crPc,        \* interrupted save: "idle", "ready", "writing", "done", "stopped"
  crOld,       \* interrupted save: the history of the previous, completed save
  crNew,       \* interrupted save: the history being saved
  crFile,      \* interrupted save: the file
  plPc,        \* payload: "idle", "event", "sent"
  plMax,       \* payload: config.maxHistory
  plHistory,   \* payload: session.history
  plToken,     \* payload: session.conversationId
  plBody,      \* payload: the body posted
  approvals,   \* PermissionSystem.approvals: the allowed and the denied keys
  permFile,    \* the file at APPROVALS_PATH
  permLog      \* the approve and approveCommand calls so far

gwVars == <<config, now, locks, sessions, heap, disk, tasks, mq,
            startLog, doneLog, deliverLog, savedToken, writer, lastData, evicted>>
rtVars == <<rtPc, rtHistory, rtFile, rtLoaded>>
crVars == <<crPc, crOld, crNew, crFile>>
plVars == <<plPc, plMax, plHistory, plToken, plBody>>
pmVars == <<approvals, permFile, permLog>>
vars == <<gwVars, rtVars, crVars, plVars, pmVars>>

TaskIds == 1..MaxMsgs

\* No response has been received.
NoData == [task |-> 0]

NoResult == [ok |-> FALSE, reply |-> <<>>, sessionKey |-> <<>>]

InitGateway ==
  /\ config \in Configs
  /\ now = 1
  /\ locks = [k \in KeySet |-> 0]
  /\ sessions = [k \in KeySet |-> 0]
  /\ heap = [i \in TaskIds |-> NoObject]
  /\ disk = [p \in PathSet |-> NoFile]
  /\ tasks = <<>>
  /\ mq = <<>>
  /\ startLog = [k \in KeySet |-> <<>>]
  /\ doneLog = [k \in KeySet |-> <<>>]
  /\ deliverLog = [k \in KeySet |-> <<>>]
  /\ savedToken = [k \in KeySet |-> Null]
  /\ lastData = NoData
  /\ evicted = {}
  /\ writer = [p \in PathSet |-> <<>>]

InitRoundTripIdle ==
  /\ rtPc = "idle"
  /\ rtHistory = <<>>
  /\ rtFile = [p \in PathSet |-> NoFile]
  /\ rtLoaded = NoObject

InitCrashIdle ==
  /\ crPc = "idle"
  /\ crOld = <<>>
  /\ crNew = <<>>
  /\ crFile = NoFile

InitPayloadIdle ==
  /\ plPc = "idle"
  /\ plMax = 0
  /\ plHistory = <<>>
  /\ plToken = Null
  /\ plBody = NoBody

\* PermissionSystem.constructor with no file at APPROVALS_PATH (_load, line 226).
NoApprovals == [allowed |-> <<>>, denied |-> <<>>]

NoPermFile == [exists |-> FALSE, content |-> NoApprovals]

InitPermIdle ==
  /\ approvals = NoApprovals
  /\ permFile = NoPermFile
  /\ permLog = <<>>

Init ==
  InitGateway /\ InitRoundTripIdle /\ InitCrashIdle /\ InitPayloadIdle /\ InitPermIdle

\* ------------------------------------------------------------ promise chain
\* Mutants of PrevLock: no chaining at all; one chain for all keys.
PrevLockNone(key) == 0
PrevLockGlobal(key) == Len(tasks)

\* handleMessage, line 191: this.locks.get(sessionKey) || Promise.resolve()
PrevLock(key) == locks[key]

\* Mutant of CatchHandler: the .catch is missing and the rejection is stored.
CatchHandlerMissing(inner) == inner

\* handleMessage, lines 194-197: .catch(err => null) turns a rejection of the
\* unit into a fulfilled null.
CatchHandler(inner) == IF inner = "rejected" THEN "fulfilled" ELSE inner

\* A promise that is settled (task 0 is Promise.resolve()).
Settled(ts, t) == t = 0 \/ ts[t].tail # "pending"

\* The task that chained itself on task t's promise, as a set.
Successors(ts, t) == { u \in DOMAIN ts : ts[u].prev = t }

\* The session objects still referenced; the others are garbage.
Collect(h, sess, ts) ==
  [i \in DOMAIN h |->
     IF (\E k \in KeySet : sess[k] = i)
        \/ (\E t \in DOMAIN ts : ts[t].state = "awaiting" /\ ts[t].sess = i)
     THEN h[i] ELSE NoObject]

\* The promise of task t settles: inner is the outcome of
\* prevLock.then(() => _processMessage(...)), the stored tail that of .catch.
\* The reactions are queued: the successor's then-callback, then the caller.
SettleTask(ts, t, inner, result, outcome) ==
  [ts EXCEPT ![t].state = "settled",
             ![t].inner = inner,
             ![t].tail = CatchHandler(inner),
             ![t].result = IF inner = "rejected" THEN NoResult ELSE result,
             ![t].outcome = outcome,
             ![t].body = NoBody]

Reactions(ts, t) ==
  LET succ == Successors(ts, t)
  IN (IF succ = {} THEN <<>> ELSE <<[kind |-> "start", task |-> CHOOSE u \in succ : TRUE]>>)
     \o <<[kind |-> "deliver", task |-> t]>>

\* ------------------------------------------------------------ handleMessage
\* The adapter passes timestamp: Date.now() (webchat.js, line 35).
HandleMessage(chat) ==
  /\ mq = <<>>
  /\ Len(tasks) < MaxMsgs
  /\ LET t == Len(tasks) + 1
         key == SessionKey(chat.channel, chat.chatId)
         prev == PrevLock(key)
         task == [key |-> key, channel |-> chat.channel, chatId |-> chat.chatId,
                  chatName |-> chat.chatName, endpoint |-> "", body |-> NoBody,
                  sender |-> chat.sender, text |-> TextOf(t), timestamp |-> now,
                  prev |-> prev, state |-> "queued", inner |-> "pending",
                  tail |-> "pending", result |-> NoResult, outcome |-> "none",
                  sess |-> 0, fromDisk |-> FALSE, waited |-> ~Settled(tasks, prev),
                  token |-> Null]
     IN /\ tasks' = Append(tasks, task)
        /\ locks' = [locks EXCEPT ![key] = t]
        /\ mq' = IF Settled(tasks, prev) THEN <<[kind |-> "start", task |-> t]>> ELSE <<>>
  /\ UNCHANGED <<config, now, sessions, heap, disk, startLog, doneLog, deliverLog,
                 savedToken, writer, lastData, evicted, rtVars, crVars, plVars, pmVars>>

\* ---------------------------------------------------------- _processMessage
\* The then-callback of task t runs: _processMessage up to its await (lines
\* 203-243).  When prevLock is rejected the callback is skipped and the
\* rejection passes on.
StartUnit(t) ==
  LET tk == tasks[t]
      key == tk.key
      hit == sessions[key] # 0
      oid == IF hit THEN sessions[key] ELSE t
      session == IF hit THEN heap[oid]
                 ELSE SessionFromFile(disk[SessionPath(key)], now)
      turn == UserTurn(tk.text, tk.sender,
                       IF tk.timestamp <= 0 THEN now ELSE tk.timestamp, tk.channel)
      history == TruncateHistory(Append(session.history, turn), MaxHistoryOf(config))
      endpoint == ResolveEndpoint(config, tk.channel)
      sessions1 == [sessions EXCEPT ![key] = oid]
      heap1 == [heap EXCEPT ![oid] = [session EXCEPT !.history = history]]
      started == [tasks EXCEPT ![t].sess = oid, ![t].fromDisk = ~hit,
                               ![t].endpoint = endpoint]
  IN IF tk.prev # 0 /\ tasks[tk.prev].tail = "rejected"
     THEN /\ tasks' = SettleTask(tasks, t, "rejected", NoResult, "skipped")
          /\ mq' = Tail(mq) \o Reactions(tasks, t)
          /\ doneLog' = [doneLog EXCEPT ![key] = Append(@, t)]
          /\ UNCHANGED <<sessions, heap, startLog, deliverLog>>
     ELSE /\ sessions' = sessions1
          /\ UNCHANGED deliverLog
          /\ startLog' = [startLog EXCEPT ![key] = Append(@, t)]
          /\ IF endpoint = ""
             THEN /\ tasks' = SettleTask(started, t, "fulfilled", NoResult, "noendpoint")
                  /\ mq' = Tail(mq) \o Reactions(tasks, t)
                  /\ doneLog' = [doneLog EXCEPT ![key] = Append(@, t)]
                  /\ heap' = Collect(heap1, sessions1, tasks')
             ELSE /\ tasks' = [started EXCEPT
                               ![t].state = "awaiting",
                               ![t].body = CallAgentBody(Context(tk, heap1[oid]))]
                  /\ mq' = Tail(mq)
                  /\ heap' = heap1
                  /\ UNCHANGED doneLog

\* The caller's await of handleMessage resumes with the outcome.
Deliver(t) ==
  /\ deliverLog' = [deliverLog EXCEPT ![tasks[t].key] = Append(@, t)]
  /\ mq' = Tail(mq)
  /\ UNCHANGED <<tasks, sessions, heap, startLog, doneLog>>

RunMicrotask ==
  /\ mq # <<>>
  /\ IF Head(mq).kind = "start" THEN StartUnit(Head(mq).task) ELSE Deliver(Head(mq).task)
  /\ UNCHANGED <<config, now, locks, disk, savedToken, writer, lastData, evicted, rtVars, crVars, plVars, pmVars>>

\* Mutant of CacheSession: the entry is replaced only where there is one.
CacheSessionIfPresent(sess, key, oid) ==
  IF sess[key] = 0 THEN sess ELSE [sess EXCEPT ![key] = oid]

\* _saveSession, line 350: this.sessions.set(sessionKey, session)
CacheSession(sess, key, oid) == [sess EXCEPT ![key] = oid]

\* Mutant of NoReply: only a missing response ends the unit.
NoReplyNullOnly(agentResponse) == agentResponse.isNull

\* _processMessage, line 245: !agentResponse || !agentResponse.reply
NoReply(agentResponse) == agentResponse.isNull \/ agentResponse.reply = <<>>

\* Mutant of StoreToken: the session's token is assigned whatever the response
\* carries, null included.
StoreTokenAlways(session, agentResponse) == agentResponse.conversationId

\* _processMessage, lines 251-253: the token of the response, when it has one,
\* becomes the session's.
StoreToken(session, agentResponse) ==
  IF agentResponse.conversationId # Null
  THEN agentResponse.conversationId
  ELSE session.conversationId

\* Mutant of ProcessResult: the key is that of the event submitted last, as if
\* it were kept in a field that handleMessage overwrites.
ProcessResultLastKey(reply, sessionKey) ==
  [ok |-> TRUE, reply |-> reply, sessionKey |-> tasks[Len(tasks)].key]

\* _processMessage, lines 265-268: what the unit returns after a reply.
ProcessResult(reply, sessionKey) ==
  [ok |-> TRUE, reply |-> reply, sessionKey |-> sessionKey]

\* The HTTP call of task t ends and _processMessage runs to its end (lines
\* 243-268, with _callAgent's lines 300-315 and _saveSession).
ProcessAfterAwait(t, http, wr) ==
  /\ mq = <<>>
  /\ t \in DOMAIN tasks
  /\ tasks[t].state = "awaiting"
  /\ LET tk == tasks[t]
         key == tk.key
         oid == tk.sess
         agentResponse == AgentResponse(http)
         session == heap[oid]
         replied == [history |-> Append(session.history, AssistantTurn(agentResponse.reply, now)),
                     conversationId |-> StoreToken(session, agentResponse),
                     lastActivity |-> now]
         sessions1 == CacheSession(sessions, key, oid)
         heap1 == [heap EXCEPT ![oid] = replied]
     IN IF agentResponse.threw
        THEN /\ tasks' = SettleTask(tasks, t, "rejected", NoResult, "threw")
             /\ heap' = Collect(heap, sessions, tasks')
             /\ UNCHANGED <<sessions, disk, savedToken, writer>>
        ELSE IF NoReply(agentResponse)
        THEN /\ tasks' = SettleTask(tasks, t, "fulfilled", NoResult,
                                    IF agentResponse.isNull THEN "agentfailed" ELSE "noreply")
             /\ heap' = Collect(heap, sessions, tasks')
             /\ UNCHANGED <<sessions, disk, savedToken, writer>>
        ELSE /\ sessions' = sessions1
             /\ disk' = WriteFile(disk, SessionPath(key), SessionData(replied.history), wr)
             /\ savedToken' = IF wr = "ok"
                              THEN [savedToken EXCEPT ![key] = replied.conversationId]
                              ELSE savedToken
             /\ writer' = IF wr = "ok"
                          THEN [writer EXCEPT ![SessionPath(key)] = key]
                          ELSE writer
             /\ tasks' = [(IF wr = "ok"
                           THEN SettleTask(tasks, t, "fulfilled",
                                           ProcessResult(agentResponse.reply, key), "replied")
                           ELSE SettleTask(tasks, t, "rejected", NoResult, "threw"))
                          EXCEPT ![t].token = agentResponse.conversationId]
             /\ heap' = Collect(heap1, sessions1, tasks')
  /\ mq' = Reactions(tasks, t)
  /\ doneLog' = [doneLog EXCEPT ![tasks[t].key] = Append(@, t)]
  /\ UNCHANGED <<config, now, locks, startLog, deliverLog, evicted, rtVars, crVars, plVars, pmVars>>

AgentReturn(t, http, wr) ==
  /\ ProcessAfterAwait(t, http, wr)
  /\ UNCHANGED lastData

\* ------------------------------------------------------ cleanExpiredSessions
SweepAges == {0, 1}

\* Mutant of Expired: the comparison includes the threshold.
ExpiredInclusive(session, t, maxAge) == t - session.lastActivity >= maxAge

\* cleanExpiredSessions, line 367: now - session.lastActivity > maxAge
Expired(session, t, maxAge) == t - session.lastActivity > maxAge

EvictExpired(maxAge) ==
  /\ mq = <<>>
  /\ sessions' = [k \in KeySet |->
                    IF sessions[k] # 0 /\ Expired(heap[sessions[k]], now, maxAge)
                    THEN 0 ELSE sessions[k]]
  /\ heap' = Collect(heap, sessions', tasks)
  /\ UNCHANGED <<config, now, locks, disk, tasks, mq, startLog, doneLog, deliverLog,
                 savedToken, writer, lastData, rtVars, crVars, plVars, pmVars>>

CleanExpiredSessions(maxAge) ==
  /\ EvictExpired(maxAge)
  /\ UNCHANGED evicted

\* Date.now() advances.
Tick ==
  /\ now < MaxTime
  /\ now' = now + 1
  /\ UNCHANGED <<config, locks, sessions, heap, disk, tasks, mq, startLog, doneLog,
                 deliverLog, savedToken, writer, lastData, evicted, rtVars, crVars, plVars, pmVars>>

Next ==
  \/ \E chat \in Chats : HandleMessage(chat)
  \/ RunMicrotask
  \/ \E t \in TaskIds, wr \in WriteOutcomes :
       \E http \in HttpOutcomes(t) : AgentReturn(t, http, wr)
  \/ \E maxAge \in SweepAges : CleanExpiredSessions(maxAge)
  \/ Tick

Spec == Init /\ [][Next]_vars

\* RunMicrotask is enabled, and changes the state, exactly when mq is not empty.
MicrotaskEnabledIffQueued == (mq # <<>>) <=> ENABLED <<RunMicrotask>>_vars

\* The event loop always runs a queued microtask: weak fairness of RunMicrotask,
\* WF_vars(RunMicrotask), written out with mq # <<>> for ENABLED
\* <<RunMicrotask>>_vars (MicrotaskEnabledIffQueued).  The HTTP call carries a
\* 60 s timeout (line 297), so it always ends.
Fairness ==
  /\ ([]<>(mq = <<>>) \/ []<><<RunMicrotask>>_vars)
  /\ \A t \in TaskIds :
       WF_vars(\E wr \in WriteOutcomes : \E http \in HttpOutcomes(t) : AgentReturn(t, http, wr))

SpecLive == Init /\ [][Next]_vars /\ Fairness

\* ------------------------------------- two channels, and a file left unparsable
\* A session file that an earlier run of the process left partially written:
\* the data of a two-turn history without its last two characters, so that the
\* last line is not valid JSON.
CorruptFile ==
  LET data == SessionData(<<UserTurn(<<"h">>, "a.b", 1, "webchat"),
                            AssistantTurn(<<"r">>, 1)>>)
  IN [exists |-> TRUE, data |-> SubSeq(data, 1, Len(data) - Len(<<"}", NL>>))]

\* The webchat user's key and file.
WebKey == SessionKey("webchat", <<"web_", "a", ".", "b">>)

\* A file that fs.existsSync finds and whose lines JSON.parse does not all accept.
Unparsable(file) ==
  /\ file.exists
  /\ LET lines == FilterBoolean(SplitLines(file.data, <<>>))
     IN \E i \in 1..Len(lines) : ~JSONvalid(lines[i])

\* The gateway starts with a per-channel endpoint for webchat only, with or
\* without a default endpoint, over a sessions directory that is empty or holds
\* the unparsable file of the webchat user.
InitMultiGateway ==
  /\ config \in ConfigsMulti
  /\ now = 1
  /\ locks = [k \in KeySet |-> 0]
  /\ sessions = [k \in KeySet |-> 0]
  /\ heap = [i \in TaskIds |-> NoObject]
  /\ disk \in { [p \in PathSet |-> NoFile],
                [p \in PathSet |-> IF p = SessionPath(WebKey) THEN CorruptFile ELSE NoFile] }
  /\ tasks = <<>>
  /\ mq = <<>>
  /\ startLog = [k \in KeySet |-> <<>>]
  /\ doneLog = [k \in KeySet |-> <<>>]
  /\ deliverLog = [k \in KeySet |-> <<>>]
  /\ savedToken = [k \in KeySet |-> Null]
  /\ lastData = NoData
  /\ evicted = {}
  /\ writer = [p \in PathSet |-> <<>>]

NextMulti ==
  \/ \E chat \in MultiChats : HandleMessage(chat)
  \/ RunMicrotask
  \/ \E t \in TaskIds, wr \in WriteOutcomes :
       \E http \in HttpOutcomes(t) : AgentReturn(t, http, wr)
  \/ \E maxAge \in SweepAges : CleanExpiredSessions(maxAge)
  \/ Tick

InitMulti ==
  /\ InitMultiGateway
  /\ InitRoundTripIdle
  /\ InitCrashIdle
  /\ InitPayloadIdle
  /\ InitPermIdle

SpecMulti == InitMulti /\ [][NextMulti]_vars

\* ------------------------------------------------- save and load, in isolation
\* A history is saved under a key and the key is loaded from disk with no
\* cache entry, for every history of at most MaxRtTurns turns whose contents are
\* strings of at most MaxRtLen characters.
RtChars == {NL, BS, QT, "n"}

RtStrings == UNION { [1..n -> RtChars] : n \in 0..MaxRtLen }

RtTurns ==
  { UserTurn(c, "a.b", 1, "webchat") : c \in RtStrings }
  \cup { AssistantTurn(c, 1) : c \in RtStrings }

RtHistories == UNION { [1..n -> RtTurns] : n \in 0..MaxRtTurns }

RtKey == SessionKey("webchat", <<"web_", "a", ".", "b">>)

InitRT ==
  /\ InitGateway
  /\ rtPc = "init"
  /\ rtHistory \in RtHistories
  /\ rtFile = [p \in PathSet |-> NoFile]
  /\ rtLoaded = NoObject
  /\ InitCrashIdle
  /\ InitPayloadIdle
  /\ InitPermIdle

RtSave(wr) ==
  /\ rtPc = "init"
  /\ rtFile' = WriteFile(rtFile, SessionPath(RtKey), SessionData(rtHistory), wr)
  /\ rtPc' = IF wr = "ok" THEN "saved" ELSE "failed"
  /\ UNCHANGED <<rtHistory, rtLoaded, gwVars, crVars, plVars, pmVars>>

RtLoad ==
  /\ rtPc = "saved"
  /\ rtLoaded' = SessionFromFile(rtFile[SessionPath(RtKey)], now)
  /\ rtPc' = "loaded"
  /\ UNCHANGED <<rtHistory, rtFile, gwVars, crVars, plVars, pmVars>>

NextRT ==
  \/ \E wr \in WriteOutcomes : RtSave(wr)
  \/ RtLoad

SpecRT == InitRT /\ [][NextRT]_vars

\* ------------------------------------------------- the fields of a response
\* A string field of the response body: absent, or present with a value that
\* may be the empty string.
Absent == [present |-> FALSE, value |-> <<>>]

Str(v) == [present |-> TRUE, value |-> v]

\* JavaScript truthiness of such a field, and of a token (absent tokens are
\* Undef): undefined, null and the empty string are falsy.
Truthy(f) == f.present /\ f.value # <<>>

TruthyToken(v) == v \notin {Undef, Null, ""}

\* Mutant of ReadReply: the first field that is present is taken, whatever it
\* holds.
ReadReplyFirstPresent(data) ==
  IF data.reply.present THEN data.reply.value
  ELSE IF data.response.present THEN data.response.value
  ELSE IF data.text.present THEN data.text.value
  ELSE <<>>

\* _callAgent, line 309: data.reply || data.response || data.text || null
\* (no reply is the empty sequence, as in HttpOutcomes).
ReadReply(data) ==
  IF Truthy(data.reply) THEN data.reply.value
  ELSE IF Truthy(data.response) THEN data.response.value
  ELSE IF Truthy(data.text) THEN data.text.value
  ELSE <<>>

\* _callAgent, line 310: data.conversationId || data.conversation_id || null
ReadToken(data) ==
  IF TruthyToken(data.conversationId) THEN data.conversationId
  ELSE IF TruthyToken(data.conversation_id) THEN data.conversation_id
  ELSE Null

\* _callAgent, lines 306-311: what a 2xx response with a JSON body yields.
ResponseOf(data) ==
  [kind |-> "ok", reply |-> ReadReply(data), conversationId |-> ReadToken(data)]

\* The bodies the agent may answer the i-th event with: each reply field
\* absent, empty or with a value of its own and no token; and a reply with
\* each token field absent, empty or with a value of its own.
FieldValues(v) == {Absent, Str(<<>>), Str(v)}

ResponseData(i) ==
  { [reply |-> r, response |-> p, text |-> x,
     conversationId |-> Undef, conversation_id |-> Undef] :
      r \in FieldValues(ReplyOf(i)),
      p \in FieldValues(<<"rs", ToString(i)>>),
      x \in FieldValues(<<"tx", ToString(i)>>) }
  \cup
  { [reply |-> Str(ReplyOf(i)), response |-> Absent, text |-> Absent,
     conversationId |-> c, conversation_id |-> u] :
      c \in {Undef, "", TokenOf(i)}, u \in {Undef, "", "U" \o ToString(i)} }

AliasChat == CHOOSE c \in Chats : c.sender = "a.b"

InitAlias ==
  /\ InitGateway
  /\ config.endpoint # ""
  /\ InitRoundTripIdle
  /\ InitCrashIdle
  /\ InitPayloadIdle
  /\ InitPermIdle

\* The agent call of task t returns 200 with the body data.
AliasReturn(t, data, wr) ==
  /\ ProcessAfterAwait(t, ResponseOf(data), wr)
  /\ lastData' = [task |-> t, data |-> data]

NextAlias ==
  \/ HandleMessage(AliasChat)
  \/ RunMicrotask
  \/ \E t \in TaskIds, wr \in WriteOutcomes :
       \E data \in ResponseData(t) : AliasReturn(t, data, wr)

SpecAlias == InitAlias /\ [][NextAlias]_vars

\* ------------------------------------------- the sweep during an agent call
\* One conversation with an endpoint configured; the sweep records the units
\* whose cache entry it removes while they are in their agent call.
SweepDuringCall(maxAge) ==
  /\ EvictExpired(maxAge)
  /\ evicted' = evicted \cup { t \in DOMAIN tasks :
                                /\ tasks[t].state = "awaiting"
                                /\ sessions[tasks[t].key] # 0
                                /\ sessions'[tasks[t].key] = 0 }

InitSweep ==
  /\ InitGateway
  /\ config.endpoint # ""
  /\ InitRoundTripIdle
  /\ InitCrashIdle
  /\ InitPayloadIdle
  /\ InitPermIdle

NextSweep ==
  \/ HandleMessage(AliasChat)
  \/ RunMicrotask
  \/ \E t \in TaskIds, wr \in WriteOutcomes :
       \E http \in HttpOutcomes(t) : AgentReturn(t, http, wr)
  \/ \E maxAge \in SweepAges : SweepDuringCall(maxAge)
  \/ Tick

SpecSweep == InitSweep /\ [][NextSweep]_vars

\* ------------------------------------------------------ load, in isolation
\* A session file is on disk when the process starts and its key is loaded with
\* no cache entry.  The file holds at most MaxLoadTurns lines, each a user turn
\* or an assistant turn with or without a conversationId field, which is what
\* lines 335-337 read.
MaxLoadTurns == 3

LoadTokens == {"T1", "T2"}

LoadTurns ==
  { UserTurn(<<"n">>, "a.b", 1, "webchat"), AssistantTurn(<<"n">>, 1) }
  \cup { Turn("assistant", <<"n">>, Undef, 1, Undef, tok) : tok \in LoadTokens }

LoadHistories == UNION { [1..n -> LoadTurns] : n \in 0..MaxLoadTurns }

InitLoad ==
  /\ InitGateway
  /\ rtPc = "saved"
  /\ rtHistory \in LoadHistories
  /\ rtFile = [p \in PathSet |->
                 IF p = SessionPath(RtKey)
                 THEN [exists |-> TRUE, data |-> SessionData(rtHistory)]
                 ELSE NoFile]
  /\ rtLoaded = NoObject
  /\ InitCrashIdle
  /\ InitPayloadIdle
  /\ InitPermIdle

NextLoad == RtLoad

SpecLoad == InitLoad /\ [][NextLoad]_vars

\* ------------------------------------------- a save that the process does not finish
\* _saveSession over a file that holds an earlier, completed save.
\* fs.writeFileSync(filePath, data) opens the file for writing, which truncates
\* it, and then writes data from the start; the process may stop before the
\* call, between the truncation and the last byte, or after it.
MaxCrTurns == 2

CrTurns == { UserTurn(<<"h">>, "a.b", 1, "webchat"), AssistantTurn(<<"r">>, 1) }

CrHistories == UNION { [1..n -> CrTurns] : n \in 1..MaxCrTurns }

\* The file after the first n characters of data were written to it.
WriteFilePrefix(data, n) == [exists |-> TRUE, data |-> SubSeq(data, 1, n)]

InitCrash ==
  /\ InitGateway
  /\ InitRoundTripIdle
  /\ InitPayloadIdle
  /\ InitPermIdle
  /\ crPc = "ready"
  /\ crOld \in CrHistories
  /\ \E turn \in CrTurns : crNew = Append(crOld, turn)
  /\ crFile = WriteFilePrefix(SessionData(crOld), Len(SessionData(crOld)))

\* writeFileSync opens the file: it is truncated.
CrOpen ==
  /\ crPc = "ready"
  /\ crFile' = WriteFilePrefix(SessionData(crNew), 0)
  /\ crPc' = "writing"
  /\ UNCHANGED <<crOld, crNew, gwVars, rtVars, plVars, pmVars>>

\* writeFileSync writes the next n characters; after the last one it returns.
CrWrite(n) ==
  /\ crPc = "writing"
  /\ Len(crFile.data) + n <= Len(SessionData(crNew))
  /\ crFile' = WriteFilePrefix(SessionData(crNew), Len(crFile.data) + n)
  /\ crPc' = IF Len(crFile.data) + n = Len(SessionData(crNew)) THEN "done" ELSE "writing"
  /\ UNCHANGED <<crOld, crNew, gwVars, rtVars, plVars, pmVars>>

\* The process stops.
CrStop ==
  /\ crPc \in {"ready", "writing", "done"}
  /\ crPc' = "stopped"
  /\ UNCHANGED <<crOld, crNew, crFile, gwVars, rtVars, plVars, pmVars>>

NextCrash ==
  \/ CrOpen
  \/ \E n \in 1..Len(SessionData(crNew)) : CrWrite(n)
  \/ CrStop

SpecCrash == InitCrash /\ [][NextCrash]_vars

\* ----------------------------------------------------- the body of a dispatch
\* _processMessage from its start to the call of _callAgent, and the body that
\* _callAgent builds, for sessions of up to MaxPlTurns turns (more than the
\* PayloadTurns that are sent) and for maxHistory unset (the default), small,
\* and larger than every history.
MaxPlTurns == 11

\* The i-th turn of a stored history: user and assistant in turn.
PlTurn(i) ==
  IF i % 2 = 1 THEN UserTurn(<<"u", ToString(i)>>, "a.b", 1, "webchat")
  ELSE AssistantTurn(<<"r", ToString(i)>>, 1)

PlTask ==
  [channel |-> "webchat", chatId |-> <<"web_", "a", ".", "b">>, chatName |-> "WebChat",
   sender |-> "a.b", text |-> <<QT, "new">>, timestamp |-> 1]

InitPayload ==
  /\ InitGateway
  /\ InitRoundTripIdle
  /\ InitCrashIdle
  /\ InitPermIdle
  /\ plPc = "event"
  /\ plMax \in {0, MaxHistory, MaxPlTurns + 1}
  /\ \E n \in 0..MaxPlTurns : plHistory = [i \in 1..n |-> PlTurn(i)]
  /\ plToken \in {Null, "", TokenOf(1)}
  /\ plBody = NoBody

\* _processMessage, lines 208-243, and _callAgent, lines 276-287.
PlDispatch ==
  /\ plPc = "event"
  /\ LET turn == UserTurn(PlTask.text, PlTask.sender, PlTask.timestamp, PlTask.channel)
         history == TruncateHistory(Append(plHistory, turn),
                                    MaxHistoryOf([maxHistory |-> plMax]))
         session == [history |-> history, conversationId |-> plToken, lastActivity |-> now]
     IN /\ plHistory' = history
        /\ plBody' = CallAgentBody(Context(PlTask, session))
  /\ plPc' = "sent"
  /\ UNCHANGED <<plMax, plToken, gwVars, rtVars, crVars, pmVars>>

\* The session is persisted and the next event arrives.
PlNext ==
  /\ plPc = "sent"
  /\ Len(plHistory) < MaxPlTurns
  /\ plHistory' = Append(plHistory, AssistantTurn(<<"r">>, 1))
  /\ plPc' = "event"
  /\ plBody' = NoBody
  /\ UNCHANGED <<plMax, plToken, gwVars, rtVars, crVars, pmVars>>

NextPayload == PlDispatch \/ PlNext

SpecPayload == InitPayload /\ [][NextPayload]_vars

\* ------------------------------------------------------------ PermissionSystem
\* src/unnamed/part_002.  A command is a sequence of symbols: a symbol is an
\* unbroken run of word characters [A-Za-z0-9_] (so that the regular
\* expressions' \b falls between symbols) or one other character; " ", "TAB"
\* and NL are the whitespace characters.
MaxCalls == 2

WS == {" ", "TAB", NL}

\* SAFE_COMMANDS, lines 13-21.
SafeCommands ==
  { <<"ls">>, <<"cat">>, <<"head">>, <<"tail">>, <<"wc">>, <<"date">>,
    <<"whoami">>, <<"echo">>, <<"pwd">>, <<"which">>, <<"file">>, <<"stat">>,
    <<"du">>, <<"df">>, <<"uname">>, <<"env">>, <<"hostname">>, <<"uptime">>,
    <<"id">>, <<"groups">>, <<"printenv">>, <<"locale">>, <<"find">>,
    <<"grep">>, <<"awk">>, <<"sed">>, <<"sort">>, <<"uniq">>, <<"tr">>,
    <<"cut">>, <<"diff">>, <<"md5sum">>, <<"sha256sum">>, <<"base64">>,
    <<"git", " ", "status">>, <<"git", " ", "log">>, <<"git", " ", "diff">>,
    <<"git", " ", "branch">>, <<"git", " ", "remote">>,
    <<"node", " ", "-", "-", "version">>,
    <<"npm", " ", "-", "-", "version">>,
    <<"python", " ", "-", "-", "version">>,
    <<"python3", " ", "-", "-", "version">> }

\* commonCommands, lines 164-170.
CommonCommands ==
  { <<"mkdir">>, <<"touch">>, <<"cp">>, <<"mv">>, <<"ln">>, <<"tar">>,
    <<"zip">>, <<"unzip">>, <<"gzip">>, <<"curl">>, <<"wget">>, <<"ssh">>,
    <<"scp">>, <<"rsync">>, <<"git">>, <<"npm">>, <<"npx">>, <<"yarn">>,
    <<"pnpm">>, <<"pip">>, <<"pip3">>, <<"python">>, <<"python3">>,
    <<"node">>, <<"docker">>, <<"brew">>, <<"apt">>, <<"apt", "-", "get">>,
    <<"code">>, <<"open">>, <<"xdg", "-", "open">>, <<"make">>, <<"cmake">>,
    <<"cargo">>, <<"go">>, <<"java">>, <<"javac">>, <<"ruby">>, <<"php">> }

\* SAFE_TOOLS, lines 43-64.
SafeTools ==
  { "read_file", "list_directory", "search_files", "system_info",
    "list_processes", "clipboard_read", "memory_search", "memory_list",
    "list_scheduled", "web_search", "web_fetch", "calendar_list_events",
    "calendar_get_event", "calendar_find_free_time",
    "calendar_list_calendars", "drive_list_files", "drive_get_file",
    "drive_read_file", "sheets_read", "sheets_get_info", "github_list_repos",
    "github_get_repo", "github_list_issues", "github_get_issue",
    "github_list_prs", "github_get_pr", "github_get_file",
    "github_list_files", "github_search_code", "github_list_workflows",
    "github_notifications", "sms_list", "call_list", "phone_lookup",
    "notion_search", "notion_get_page", "notion_query_database",
    "notion_get_database", "docker_list_containers", "docker_logs",
    "docker_inspect", "docker_stats", "docker_list_images",
    "docker_compose_ps", "docker_list_networks", "docker_list_volumes",
    "db_query", "db_list_tables", "db_describe_table", "db_list_databases",
    "db_table_stats" }

\* MODERATE_TOOLS, lines 67-87.
ModerateTools ==
  { "write_file", "append_file", "edit_file", "copy_file", "move_file",
    "web_download", "clipboard_write", "notify", "open", "screenshot",
    "memory_save", "memory_delete", "schedule_task", "cancel_scheduled",
    "calendar_create_event", "calendar_update_event", "drive_upload_file",
    "drive_create_file", "drive_create_folder", "drive_share_file",
    "drive_move_file", "sheets_write", "sheets_append", "sheets_create",
    "sheets_add_sheet", "sheets_clear", "github_create_repo",
    "github_create_issue", "github_update_issue", "github_comment_issue",
    "github_create_pr", "github_trigger_workflow", "sms_send", "call_make",
    "notion_create_page", "notion_update_page", "notion_append_blocks",
    "notion_create_database", "docker_run", "docker_start", "docker_restart",
    "docker_exec", "docker_pull", "docker_build", "docker_compose_up",
    "db_insert", "db_update", "db_create_table", "db_export", "db_import" }

\* DANGEROUS_TOOLS, lines 90-100.
DangerousTools ==
  { "bash", "delete_file", "kill_process", "calendar_delete_event",
    "drive_delete_file", "github_merge_pr", "docker_stop", "docker_remove",
    "docker_compose_down", "docker_system_prune", "db_execute", "db_delete" }

RECURSIVE TrimStart(_)
TrimStart(s) ==
  IF s # <<>> /\ Head(s) \in WS THEN TrimStart(Tail(s)) ELSE s

RECURSIVE TrimEnd(_)
TrimEnd(s) ==
  IF s # <<>> /\ s[Len(s)] \in WS THEN TrimEnd(SubSeq(s, 1, Len(s) - 1)) ELSE s

\* String.prototype.trim()
Trim(s) == TrimEnd(TrimStart(s))

\* trimmed.split(/\s+/)[0]
RECURSIVE BaseCmd(_)
BaseCmd(s) ==
  IF s = <<>> \/ Head(s) \in WS THEN <<>> ELSE <<Head(s)>> \o BaseCmd(Tail(s))

\* s[i..j] is whitespace only (an empty stretch when j < i).
WsRun(s, i, j) == \A n \in i..j : s[n] \in WS

\* \bw\b
HasWord(s, w) == \E i \in 1..Len(s) : s[i] = w

\* \bw\s+ followed by the symbols of next
WordThen(s, w, next) ==
  \E i, j \in 1..Len(s) :
    /\ s[i] = w /\ j >= i + 2 /\ WsRun(s, i + 1, j - 1)
    /\ j + Len(next) - 1 <= Len(s)
    /\ \A n \in 1..Len(next) : s[j + n - 1] \in next[n]

\* \btool\b.*\|\s*(bash|sh|zsh)\b
PipedToShell(s, tool) ==
  \E i, j, k \in 1..Len(s) :
    /\ i < j /\ j < k
    /\ s[i] = tool /\ s[j] = "|"
    /\ \A n \in (i + 1)..(j - 1) : s[n] # NL
    /\ WsRun(s, j + 1, k - 1)
    /\ s[k] \in {"bash", "sh", "zsh"}

\* >\s*\/dev\/
ToDevice(s) ==
  \E i, j \in 1..Len(s) :
    /\ s[i] = ">" /\ j > i /\ WsRun(s, i + 1, j - 1)
    /\ j + 2 <= Len(s) /\ s[j] = "/" /\ s[j + 1] = "dev" /\ s[j + 2] = "/"

\* Words of three or four octal digits, and the spellings of the SQL keywords.
OctalModes == {"644", "755", "777", "0755"}
DropWords == {"DROP", "drop", "Drop"}
TableWords == {"TABLE", "table", "Table"}
DatabaseWords == {"DATABASE", "database", "Database"}

\* DANGEROUS_PATTERNS, lines 24-40: some pattern matches.
DangerousPatterns(s) ==
  \/ WordThen(s, "rm", <<{"-"}, {"r", "rf"}>>)
  \/ HasWord(s, "sudo")
  \/ WordThen(s, "chmod", <<OctalModes>>)
  \/ PipedToShell(s, "curl")
  \/ PipedToShell(s, "wget")
  \/ WordThen(s, "dd", <<{"if"}, {"="}>>)
  \/ HasWord(s, "mkfs")
  \/ HasWord(s, "format")
  \/ ToDevice(s)
  \/ HasWord(s, "shutdown")
  \/ HasWord(s, "reboot")
  \/ HasWord(s, "killall")
  \/ HasWord(s, "pkill")
  \/ \E w \in DropWords : WordThen(s, w, <<TableWords>>)
  \/ \E w \in DropWords : WordThen(s, w, <<DatabaseWords>>)

\* A tool input: the fields of the object in insertion order, each with its
\* name, the kind of its value ("str", "num", "bool") and the value.
Field(name, kind, value) == [name |-> name, kind |-> kind, value |-> value]

HasField(input, name) == \E i \in 1..Len(input) : input[i].name = name

\* input.<name>, Undef when the field is absent.
GetField(input, name) ==
  IF HasField(input, name)
  THEN input[CHOOSE i \in 1..Len(input) : input[i].name = name].value
  ELSE Undef

\* JSON.stringify(input): the fields in insertion order.
RECURSIVE StringifyFields(_)
StringifyFields(input) ==
  IF input = <<>> THEN <<>>
  ELSE LET f == Head(input)
           v == IF f.kind = "str" THEN <<QT>> \o EscapeString(f.value) \o <<QT>>
                ELSE <<f.value>>
       IN <<QT, f.name, QT, ":">> \o v
          \o (IF Len(input) = 1 THEN <<>> ELSE <<",">>)
          \o StringifyFields(Tail(input))

StringifyInput(input) == <<"{">> \o StringifyFields(input) \o <<"}">>

\* Array.prototype.includes
Includes(list, key) == \E i \in 1..Len(list) : list[i] = key

\* Mutant of CheckApproval: a key on neither list is allowed.
CheckApprovalDefaultAllow(app, toolName, input) ==
  LET key == <<toolName, ":">> \o StringifyInput(input)
  IN IF Includes(app.denied, key) /\ ~Includes(app.allowed, key) THEN "denied"
     ELSE "allowed"

\* _checkApproval, lines 178-183.
CheckApproval(app, toolName, input) ==
  LET key == <<toolName, ":">> \o StringifyInput(input)
  IN IF Includes(app.allowed, key) THEN "allowed"
     ELSE IF Includes(app.denied, key) THEN "denied"
     ELSE "needs_approval"

\* Mutant of CheckBash: the decisions recorded for the exact command are
\* consulted before the approval of the leading token.
CheckBashExactFirst(app, command) ==
  IF command = Undef \/ command = <<>> THEN "denied"
  ELSE LET trimmed == Trim(command)
           baseCmd == BaseCmd(trimmed)
           exactKey == <<"bash", ":">> \o trimmed
           baseKey == <<"bash_cmd", ":">> \o baseCmd
       IN IF baseCmd \in SafeCommands \/ trimmed \in SafeCommands THEN "allowed"
          ELSE IF DangerousPatterns(trimmed)
          THEN IF Includes(app.allowed, exactKey) THEN "allowed"
               ELSE IF Includes(app.denied, exactKey) THEN "denied"
               ELSE "needs_approval"
          ELSE IF Includes(app.allowed, exactKey) THEN "allowed"
          ELSE IF Includes(app.denied, exactKey) THEN "denied"
          ELSE IF Includes(app.allowed, baseKey) THEN "allowed"
          ELSE IF baseCmd \in CommonCommands THEN "allowed"
          ELSE "needs_approval"

\* Mutant of CheckBash: the danger patterns are tested before the safe list.
CheckBashDangerFirst(app, command) ==
  IF command = Undef \/ command = <<>> THEN "denied"
  ELSE LET trimmed == Trim(command)
           baseCmd == BaseCmd(trimmed)
           exactKey == <<"bash", ":">> \o trimmed
           baseKey == <<"bash_cmd", ":">> \o baseCmd
       IN IF DangerousPatterns(trimmed)
          THEN IF Includes(app.allowed, exactKey) THEN "allowed"
               ELSE IF Includes(app.denied, exactKey) THEN "denied"
               ELSE "needs_approval"
          ELSE IF baseCmd \in SafeCommands \/ trimmed \in SafeCommands THEN "allowed"
          ELSE IF Includes(app.allowed, baseKey) THEN "allowed"
          ELSE IF Includes(app.allowed, exactKey) THEN "allowed"
          ELSE IF Includes(app.denied, exactKey) THEN "denied"
          ELSE IF baseCmd \in CommonCommands THEN "allowed"
          ELSE "needs_approval"

\* _checkBash, lines 135-176.
CheckBash(app, command) ==
  IF command = Undef \/ command = <<>> THEN "denied"
  ELSE LET trimmed == Trim(command)
           baseCmd == BaseCmd(trimmed)
           exactKey == <<"bash", ":">> \o trimmed
           baseKey == <<"bash_cmd", ":">> \o baseCmd
       IN IF baseCmd \in SafeCommands \/ trimmed \in SafeCommands THEN "allowed"
          ELSE IF DangerousPatterns(trimmed)
          THEN IF Includes(app.allowed, exactKey) THEN "allowed"
               ELSE IF Includes(app.denied, exactKey) THEN "denied"
               ELSE "needs_approval"
          ELSE IF Includes(app.allowed, baseKey) THEN "allowed"
          ELSE IF Includes(app.allowed, exactKey) THEN "allowed"
          ELSE IF Includes(app.denied, exactKey) THEN "denied"
          ELSE IF baseCmd \in CommonCommands THEN "allowed"
          ELSE "needs_approval"

\* Mutant of Check: the safe tools are not set apart.
CheckNoSafeTools(app, toolName, input) ==
  IF toolName \in ModerateTools
  THEN IF toolName = "delete_file" /\ GetField(input, "recursive") = "true"
       THEN CheckApproval(app, toolName, input)
       ELSE "allowed"
  ELSE IF toolName = "bash" THEN CheckBash(app, GetField(input, "command"))
  ELSE CheckApproval(app, toolName, input)

\* check, lines 110-133.
Check(app, toolName, input) ==
  IF toolName \in SafeTools THEN "allowed"
  ELSE IF toolName \in ModerateTools
  THEN IF toolName = "delete_file" /\ GetField(input, "recursive") = "true"
       THEN CheckApproval(app, toolName, input)
       ELSE "allowed"
  ELSE IF toolName = "bash" THEN CheckBash(app, GetField(input, "command"))
  ELSE IF toolName = "kill_process" THEN CheckApproval(app, toolName, input)
  ELSE CheckApproval(app, toolName, input)

\* approve, line 187: the key of a decision.
ApproveKey(toolName, input) ==
  IF toolName = "bash"
  THEN <<"bash", ":">> \o (IF GetField(input, "command") = Undef THEN <<Undef>>
                           ELSE GetField(input, "command"))
  ELSE <<toolName, ":">> \o StringifyInput(input)

\* Mutant of AlreadyRecorded: the list is not consulted.
AlreadyRecordedNever(list, key) == FALSE

\* approve, line 190, and approveCommand, line 199: the key is in the list.
AlreadyRecorded(list, key) == Includes(list, key)

\* _save, lines 229-232: the approvals are written to the file, or mkdirSync or
\* writeFileSync throws and the file is as it was.
SaveApprovals(file, app, outcome) ==
  IF outcome = "ok" THEN [exists |-> TRUE, content |-> app] ELSE file

\* approve, lines 186-194: the approvals and the file after the call.
ApproveEffect(app, file, toolName, input, allowed, outcome) ==
  LET key == ApproveKey(toolName, input)
      list == IF allowed THEN "allowed" ELSE "denied"
  IN IF AlreadyRecorded(app[list], key)
     THEN [approvals |-> app, file |-> file]
     ELSE LET app1 == [app EXCEPT ![list] = Append(@, key)]
          IN [approvals |-> app1, file |-> SaveApprovals(file, app1, outcome)]

\* approveCommand, lines 197-203.
ApproveCommandEffect(app, file, command, outcome) ==
  LET key == <<"bash_cmd", ":">> \o command
  IN IF AlreadyRecorded(app.allowed, key)
     THEN [approvals |-> app, file |-> file]
     ELSE LET app1 == [app EXCEPT !.allowed = Append(@, key)]
          IN [approvals |-> app1, file |-> SaveApprovals(file, app1, outcome)]

\* The requests of the model: a command with a leading blank that matches a
\* danger pattern, one without, a command that is neither safe, dangerous nor
\* common, and a tool that always needs approval.
BashRequest(command) ==
  [tool |-> "bash", input |-> <<Field("command", "str", command)>>]

\* The command of a bash request.
CommandOf(req) == GetField(req.input, "command")

PermRequests ==
  { BashRequest(<<" ", "rm", " ", "-", "rf", " ", "/", "tmp", "/", "x">>),
    BashRequest(<<"sudo", " ", "foo">>),
    BashRequest(<<"foo", " ", "x">>),
    [tool |-> "kill_process",
     input |-> <<Field("pid", "num", "1"), Field("force", "bool", "true")>>] }

\* The requests whose outcome is looked at: those above, one each that the
\* safe list, the common commands, the safe tools and the moderate tools settle,
\* delete_file with and without its recursive flag, the empty command, a tool
\* that is on no list, and the kill_process request with its fields in the other
\* order.
CheckedRequests ==
  PermRequests \cup
  { BashRequest(<<"rm", " ", "-", "rf", " ", "/", "tmp", "/", "y">>),
    BashRequest(<<"ls", " ", ";", " ", "sudo", " ", "foo">>),
    BashRequest(<<"npm", " ", "i">>),
    [tool |-> "read_file", input |-> <<Field("path", "str", <<"x">>)>>],
    [tool |-> "write_file", input |-> <<Field("path", "str", <<"x">>)>>],
    [tool |-> "delete_file",
     input |-> <<Field("path", "str", <<"x">>), Field("recursive", "bool", "true")>>],
    [tool |-> "delete_file", input |-> <<Field("path", "str", <<"x">>)>>],
    BashRequest(<<>>),
    [tool |-> "unknown_tool", input |-> <<>>],
    [tool |-> "kill_process",
     input |-> <<Field("force", "bool", "true"), Field("pid", "num", "1")>>] }

PermCommands == { <<"foo">> }

InitPerm ==
  /\ InitGateway
  /\ InitRoundTripIdle
  /\ InitCrashIdle
  /\ InitPayloadIdle
  /\ InitPermIdle

\* approve(toolName, input, allowed); when _save throws the call throws.
Approve(req, allowed, outcome) ==
  /\ Len(permLog) < MaxCalls
  /\ LET eff == ApproveEffect(approvals, permFile, req.tool, req.input, allowed, outcome)
     IN /\ outcome = "ok" \/ eff.approvals # approvals
        /\ approvals' = eff.approvals
        /\ permFile' = eff.file
        /\ permLog' = Append(permLog, [op |-> "approve", tool |-> req.tool,
                                       input |-> req.input, allowed |-> allowed,
                                       threw |-> outcome # "ok"])
  /\ UNCHANGED <<gwVars, rtVars, crVars, plVars>>

\* approveCommand(command)
ApproveCommand(command, outcome) ==
  /\ Len(permLog) < MaxCalls
  /\ LET eff == ApproveCommandEffect(approvals, permFile, command, outcome)
     IN /\ outcome = "ok" \/ eff.approvals # approvals
        /\ approvals' = eff.approvals
        /\ permFile' = eff.file
        /\ permLog' = Append(permLog, [op |-> "approveCommand", tool |-> "bash",
                                       input |-> <<Field("command", "str", command)>>,
                                       allowed |-> TRUE, threw |-> outcome # "ok"])
  /\ UNCHANGED <<gwVars, rtVars, crVars, plVars>>

\* The process is started again: constructor and _load, lines 103-106, 220-227.
PermRestart ==
  /\ approvals' = IF permFile.exists THEN permFile.content ELSE NoApprovals
  /\ UNCHANGED <<permFile, permLog, gwVars, rtVars, crVars, plVars>>

NextPerm ==
  \/ \E req \in PermRequests, allowed \in BOOLEAN, outcome \in WriteOutcomes :
       Approve(req, allowed, outcome)
  \/ \E command \in PermCommands, outcome \in WriteOutcomes :
       ApproveCommand(command, outcome)
  \/ PermRestart

SpecPerm == InitPerm /\ [][NextPerm]_vars

\* ------------------------------------------------- check and describeAction
\* A PermissionSystem whose constructor has loaded a store of at most
\* MaxStoreKeys recorded keys; check and describeAction are called on it, and
\* permLog holds the last call and what it returned.
MaxStoreKeys == 2

DescribeLimit == 100

\* s.substring(0, n), counted in symbols.
Substring(s, n) == SubSeq(s, 1, IF Len(s) < n THEN Len(s) ELSE n)

\* describeAction, lines 206-217.
DescribeAction(toolName, input) ==
  LET show(v) == IF v = Undef THEN <<"undefined">> ELSE v
  IN IF toolName = "bash"
     THEN <<"Run command: ">> \o show(GetField(input, "command"))
     ELSE IF toolName = "delete_file"
     THEN <<"Delete ">>
          \o (IF GetField(input, "recursive") = "true" THEN <<"directory">> ELSE <<"file">>)
          \o <<": ">> \o show(GetField(input, "path"))
     ELSE IF toolName = "kill_process"
     THEN <<"Kill process PID ">>
          \o (IF GetField(input, "pid") = Undef THEN <<"undefined">>
              ELSE <<GetField(input, "pid")>>)
          \o (IF GetField(input, "force") = "true" THEN <<" (force)">> ELSE <<>>)
     ELSE <<toolName, ": ">> \o Substring(StringifyInput(input), DescribeLimit)

\* The keys a store may hold: the keys approve builds for the requests, the
\* same for the trimmed commands, and base-command keys.
StoreKeys ==
  { ApproveKey(r.tool, r.input) : r \in CheckedRequests }
  \cup { <<"bash", ":">> \o Trim(CommandOf(r)) : r \in {c \in CheckedRequests : c.tool = "bash"} }
  \cup { <<"bash_cmd", ":">> \o b : b \in {<<"foo">>, <<"rm">>} }

StoreSlots == {"allowed", "denied"} \X StoreKeys

\* The subsets of S with at most k elements.
RECURSIVE UpTo(_, _)
UpTo(S, k) ==
  IF k = 0 THEN {{}}
  ELSE LET smaller == UpTo(S, k - 1)
       IN smaller \cup { s \cup {x} : s \in smaller, x \in S }

RECURSIVE ListOf(_)
ListOf(S) ==
  IF S = {} THEN <<>>
  ELSE LET x == CHOOSE y \in S : TRUE IN <<x>> \o ListOf(S \ {x})

\* The approvals that hold the given slots.
StoreOf(slots) ==
  [allowed |-> ListOf({s[2] : s \in {x \in slots : x[1] = "allowed"}}),
   denied |-> ListOf({s[2] : s \in {x \in slots : x[1] = "denied"}})]

Stores == { StoreOf(slots) : slots \in UpTo(StoreSlots, MaxStoreKeys) }

\* No gateway runs beside the PermissionSystem: its configuration is the one
\* without endpoint.
InitCheck ==
  /\ InitGateway
  /\ config.endpoint = ""
  /\ InitRoundTripIdle
  /\ InitCrashIdle
  /\ InitPayloadIdle
  /\ approvals \in Stores
  /\ permFile = IF approvals = NoApprovals THEN NoPermFile
                ELSE [exists |-> TRUE, content |-> approvals]
  /\ permLog = <<>>

\* check(toolName, input): reads this.approvals, writes nothing.
CheckCall(req) ==
  /\ permLog' = << [op |-> "check", tool |-> req.tool, input |-> req.input,
                    result |-> Check(approvals, req.tool, req.input)] >>
  /\ UNCHANGED <<approvals, permFile, gwVars, rtVars, crVars, plVars>>

\* describeAction(toolName, input): reads its arguments only.
DescribeCall(req) ==
  /\ permLog' = << [op |-> "describeAction", tool |-> req.tool, input |-> req.input,
                    result |-> DescribeAction(req.tool, req.input)] >>
  /\ UNCHANGED <<approvals, permFile, gwVars, rtVars, crVars, plVars>>

NextCheck ==
  \/ \E req \in CheckedRequests : CheckCall(req)
  \/ \E req \in CheckedRequests : DescribeCall(req)

SpecCheck == InitCheck /\ [][NextCheck]_vars

\* ===================================================================== claims
Range(seq) == { seq[i] : i \in 1..Len(seq) }

IsPrefix(a, b) == Len(a) <= Len(b) /\ SubSeq(b, 1, Len(a)) = a

\* The tasks submitted for key k, in the order of submission.
SubmittedFor(k) ==
  SelectSeq([i \in 1..Len(tasks) |-> i], LAMBDA t : tasks[t].key = k)

\* A unit of work is between its start and its completion.
InFlight(t) == tasks[t].state = "awaiting"

Executed(t) == t \in Range(startLog[tasks[t].key])

StartQueued(t) == \E i \in 1..Len(mq) : mq[i] = [kind |-> "start", task |-> t]

\* C1: for every session key, at most one unit of work is between its start and
\* its completion: no two tasks of the same key are in flight together.
C1_OneUnitPerKey ==
  \A t1, t2 \in DOMAIN tasks :
    (t1 # t2 /\ tasks[t1].key = tasks[t2].key) => ~(InFlight(t1) /\ InFlight(t2))

\* C1 witness: an event was submitted on a key while an earlier unit of that key
\* is suspended in its agent call, and it is held back.
C1_Witness ==
  \E t1, t2 \in DOMAIN tasks :
    /\ t1 < t2 /\ tasks[t1].key = tasks[t2].key
    /\ InFlight(t1) /\ tasks[t2].state = "queued" /\ mq = <<>>

\* C2: per session key the units start, their promises settle and the callers
\* receive the outcomes in the order of submission: each log is a prefix of the
\* key's submissions.
C2_FifoPerKey ==
  \A k \in KeySet :
    /\ IsPrefix(startLog[k], SubmittedFor(k))
    /\ IsPrefix(doneLog[k], SubmittedFor(k))
    /\ IsPrefix(deliverLog[k], SubmittedFor(k))

\* C2 witness: two events of one key, the later one submitted before the earlier
\* one had finished, have both been delivered.
C2_Witness ==
  \E k \in KeySet :
    /\ Len(deliverLog[k]) >= 2
    /\ tasks[deliverLog[k][2]].waited

\* C3: the stored tail never settles as rejected; a unit whose promise settled
\* was executed, and a unit whose agent call and save succeeded returns its
\* reply with its session key, whatever happened to the units before it.
C3_FailureDoesNotPoison ==
  \A t \in DOMAIN tasks :
    /\ tasks[t].tail # "rejected"
    /\ tasks[t].state = "settled" => Executed(t)
    /\ tasks[t].outcome = "replied" =>
         tasks[t].result = [ok |-> TRUE, reply |-> ReplyOf(t), sessionKey |-> tasks[t].key]

\* C3 witness: turn N of a key threw inside _processMessage, and turn N+1 of the
\* same key, chained on it, was answered.
C3_Witness ==
  \E t1, t2 \in DOMAIN tasks :
    /\ tasks[t2].prev = t1 /\ tasks[t1].key = tasks[t2].key
    /\ tasks[t1].outcome = "threw"
    /\ tasks[t2].outcome = "replied" /\ tasks[t2].result.ok

\* C4: a unit that has not started waits for nothing but an unsettled unit of
\* its own key (or its then-callback is already queued), and the completion of
\* a suspended agent call is never held back by any other task.
C4_KeysIndependent ==
  \A t \in DOMAIN tasks :
    /\ tasks[t].state = "queued" =>
         \/ StartQueued(t)
         \/ /\ tasks[t].prev # 0
            /\ tasks[tasks[t].prev].key = tasks[t].key
            /\ ~Settled(tasks, tasks[t].prev)
    /\ (InFlight(t) /\ mq = <<>>) =>
         ENABLED (\E wr \in WriteOutcomes : \E http \in HttpOutcomes(t) : AgentReturn(t, http, wr))

\* C4 witness: key B's event was submitted after key A's, A's unit is still
\* suspended in its agent call, and B's unit has completed with its reply.
C4_Witness ==
  \E a, b \in DOMAIN tasks :
    /\ a < b /\ tasks[a].key # tasks[b].key
    /\ InFlight(a)
    /\ tasks[b].outcome = "replied" /\ tasks[b].result.ok

\* Every unit enqueued so far has been executed and its promise is fulfilled.
AllUnitsComplete ==
  \A t \in DOMAIN tasks : Executed(t) /\ tasks[t].tail = "fulfilled"

\* C5: under fair scheduling (every queued microtask runs, every agent call
\* returns), every unit enqueued by handleMessage is eventually executed and its
\* promise is eventually fulfilled: again and again, all units enqueued so far
\* are complete.
C5_EveryUnitCompletes == []<>AllUnitsComplete

\* C5 witness: every event the bound allows went to one key, the later ones
\* queued behind a unit that then threw, and all were executed and fulfilled.
C5_Witness ==
  /\ Len(tasks) = MaxMsgs
  /\ \A t \in DOMAIN tasks :
       /\ tasks[t].key = tasks[1].key
       /\ Executed(t) /\ tasks[t].tail = "fulfilled"
       /\ t > 1 => tasks[t].waited
  /\ tasks[1].outcome = "threw"

\* The history a load of key k from disk would yield now.
DurableHistory(k) == SessionFromFile(disk[SessionPath(k)], now).history

\* The last unit of its key to have started.
LastStarted(t) ==
  LET log == startLog[tasks[t].key] IN log # <<>> /\ log[Len(log)] = t

\* C6: the persisted history of every session holds at most maxHistory turns.
C6_PersistedWithinMaxHistory ==
  \A k \in KeySet : Len(DurableHistory(k)) <= MaxHistoryOf(config)

\* C7: after a unit whose agent call returned null has completed, the durable
\* history of its key ends with that event's user turn and the caller got no
\* reply.
C7_FailurePersistsInboundTurn ==
  \A t \in DOMAIN tasks :
    (tasks[t].outcome = "agentfailed" /\ LastStarted(t)) =>
      LET h == DurableHistory(tasks[t].key)
      IN /\ ~tasks[t].result.ok
         /\ h # <<>>
         /\ h[Len(h)].role = "user"
         /\ h[Len(h)].content = tasks[t].text

\* C8: a session loaded from disk, after it was saved with continuation token T
\* and evicted from the cache, has conversationId T.
C8_TokenSurvivesReload ==
  \A t \in DOMAIN tasks :
    (InFlight(t) /\ tasks[t].fromDisk /\ savedToken[tasks[t].key] # Null) =>
      heap[tasks[t].sess].conversationId = savedToken[tasks[t].key]

\* C9: _sessionPath is injective on the session keys in use, and the file at a
\* key's path was written by a save of that key and of no other key.
C9_SessionPathInjective ==
  /\ \A t1, t2 \in DOMAIN tasks :
       tasks[t1].key # tasks[t2].key => SessionPath(tasks[t1].key) # SessionPath(tasks[t2].key)
  /\ \A k \in KeySet :
       disk[SessionPath(k)].exists => writer[SessionPath(k)] = k

\* C10: a completed save writes the whole history, and loading the key from
\* disk with no cache entry yields a history equal to the saved one, turn by
\* turn.
C10_SaveLoadRoundTrip ==
  /\ rtPc \in {"saved", "loaded"} =>
       rtFile[SessionPath(RtKey)] = [exists |-> TRUE, data |-> SessionData(rtHistory)]
  /\ rtPc = "loaded" => rtLoaded.history = rtHistory

\* C10 witness: a history of two turns, one of them with a newline in its
\* content, was saved and loaded.
C10_Witness ==
  /\ rtPc = "loaded"
  /\ Len(rtHistory) >= 2
  /\ \E i \in 1..Len(rtHistory) : NL \in Range(rtHistory[i].content)

\* C11: when the process stops at any point of a save, the history found on
\* disk afterwards is the complete history of the previous save or the complete
\* history being saved.
C11_SaveIsCrashSafe ==
  crPc = "stopped" =>
    SessionFromFile(crFile, now).history \in {crOld, crNew}

\* The then-callback of task t runs _processMessage in this step.
StartsNow(t) ==
  /\ t \in DOMAIN tasks
  /\ tasks[t].state = "queued"
  /\ tasks'[t].state # "queued"

\* C12: when a unit loads its session from a file that does not parse, the load
\* returns and caches an empty session, to which the event's turn is added; the
\* event is dispatched with that history alone; the file, the sessions of the
\* other keys and the other units are left as they were.
C12_CorruptFileFallsBack ==
  [][\A t \in TaskIds :
       (/\ StartsNow(t)
        /\ sessions[tasks[t].key] = 0
        /\ Unparsable(disk[SessionPath(tasks[t].key)]))
       => LET tk == tasks[t]
              turn == UserTurn(tk.text, tk.sender, tk.timestamp, tk.channel)
          IN /\ sessions'[tk.key] # 0
             /\ heap'[sessions'[tk.key]] =
                  [history |-> <<turn>>, conversationId |-> Null, lastActivity |-> now]
             /\ tasks'[t].state = "awaiting"
             /\ tasks'[t].body.message = tk.text
             /\ tasks'[t].body.history = <<ReduceTurn(turn)>>
             /\ tasks'[t].body.conversationId = Null
             /\ disk' = disk
             /\ \A k \in KeySet \ {tk.key} : sessions'[k] = sessions[k]
             /\ \A u \in DOMAIN tasks \ {t} : tasks'[u] = tasks[u]]_vars

\* C12 witness: the webchat unit loaded the unparsable file and is in its agent
\* call with its own turn as the whole history, and the Telegram unit, submitted
\* after it, has been answered.
C12_Witness ==
  \E t, u \in DOMAIN tasks :
    /\ t < u
    /\ tasks[t].key = WebKey /\ InFlight(t) /\ tasks[t].fromDisk
    /\ Unparsable(disk[SessionPath(WebKey)])
    /\ Len(tasks[t].body.history) = 1
    /\ tasks[u].key # WebKey /\ tasks[u].outcome = "replied"

\* C13: the session entry of a key with a unit of work in flight is in the
\* cache: the sweep never removes it.
C13_SweepSparesInFlight ==
  \A t \in DOMAIN tasks : InFlight(t) => sessions[tasks[t].key] # 0

\* C14: no step deletes a session file; a step that removes a cache entry
\* removes exactly the entries whose lastActivity is older than a threshold
\* maxAge and leaves the files, the locks map, the tasks, the remaining entries
\* and the session objects of the units in flight as they were.
C14_SweepFrame ==
  [][/\ \A p \in PathSet : disk[p].exists => disk'[p].exists
     /\ (\E k \in KeySet : sessions[k] # 0 /\ sessions'[k] = 0) =>
          /\ \E maxAge \in SweepAges : \A k \in KeySet :
               sessions'[k] =
                 IF sessions[k] # 0 /\ now - heap[sessions[k]].lastActivity > maxAge
                 THEN 0 ELSE sessions[k]
          /\ disk' = disk /\ locks' = locks /\ tasks' = tasks /\ mq' = mq
          /\ \A k \in KeySet : sessions'[k] # 0 => heap'[sessions'[k]] = heap[sessions[k]]
          /\ \A t \in DOMAIN tasks :
               InFlight(t) => heap'[tasks[t].sess] = heap[tasks[t].sess]]_vars

\* C14 witness: the entry of a key whose session was saved is gone from the
\* cache while its file and its locks entry are there, and the younger entry of
\* the other key is still cached.
C14_Witness ==
  \E k1, k2 \in KeySet :
    /\ k1 # k2
    /\ sessions[k1] = 0 /\ locks[k1] # 0
    /\ disk[SessionPath(k1)].exists /\ writer[SessionPath(k1)] = k1
    /\ sessions[k2] # 0 /\ heap[sessions[k2]].lastActivity = now

\* C15: a unit is dispatched to the endpoint of its channel when that is set
\* and to the default endpoint otherwise; with neither, it is never suspended in
\* an agent call, it ends with no reply and a fulfilled promise, and the unit
\* chained on it is started.
C15_EndpointResolution ==
  \A t \in DOMAIN tasks :
    Executed(t) =>
      LET tk == tasks[t]
          own == config.channels[tk.channel].endpoint
      IN /\ own # "" => tk.endpoint = own
         /\ own = "" => tk.endpoint = config.endpoint
         /\ InFlight(t) => tk.endpoint # ""
         /\ tk.outcome = "noendpoint" <=> (own = "" /\ config.endpoint = "")
         /\ tk.outcome = "noendpoint" =>
              /\ tk.state = "settled" /\ tk.tail = "fulfilled"
              /\ ~tk.result.ok /\ tk.body = NoBody
              /\ \A u \in DOMAIN tasks :
                   tasks[u].prev = t => (Executed(u) \/ StartQueued(u))

\* C15 witness: the Telegram unit found no endpoint and ended with no reply,
\* and the webchat unit submitted after it was answered by its channel's own
\* endpoint.
C15_Witness ==
  \E t, u \in DOMAIN tasks :
    /\ t < u
    /\ tasks[t].outcome = "noendpoint" /\ tasks[t].channel = "telegram"
    /\ tasks[u].outcome = "replied" /\ tasks[u].endpoint = "http://web"

\* C16: when the HTTP call ends in a thrown error (network error or timeout), a
\* non-2xx status or an unparsable body, _callAgent returns null: the unit's
\* promise is fulfilled with no reply, and the cache, the files, the locks map,
\* the session object and the other tasks are left as they were, the same for
\* each of the three.
C16_DispatcherFailuresAlike ==
  [][\A t \in TaskIds, wr \in WriteOutcomes :
       \A http \in HttpOutcomes(t) :
         (http.kind # "ok" /\ AgentReturn(t, http, wr)) =>
           /\ tasks'[t].inner = "fulfilled" /\ tasks'[t].tail = "fulfilled"
           /\ tasks'[t].result = NoResult /\ tasks'[t].outcome = "agentfailed"
           /\ \A u \in DOMAIN tasks \ {t} : tasks'[u] = tasks[u]
           /\ sessions' = sessions /\ disk' = disk /\ locks' = locks
           /\ sessions[tasks[t].key] # 0 =>
                heap'[sessions[tasks[t].key]] = heap[sessions[tasks[t].key]]]_vars

\* C16 witness: a unit whose agent call failed has ended with no reply, and the
\* unit chained on it was answered.
C16_Witness ==
  \E t, u \in DOMAIN tasks :
    /\ tasks[u].prev = t
    /\ tasks[t].outcome = "agentfailed" /\ tasks[t].tail = "fulfilled"
    /\ tasks[u].outcome = "replied"

\* C17: the body's message is the text of the event, which is the content of
\* the last turn of the session history, and the body's history is the last
\* min(PayloadTurns, n) turns of the n turns of the session history, in order,
\* each with its role and content and nothing else.
C17_PayloadIsLastTurns ==
  plPc = "sent" =>
    LET n == Len(plHistory)
        m == IF n < PayloadTurns THEN n ELSE PayloadTurns
    IN /\ plBody.message = PlTask.text
       /\ plBody.message = plHistory[n].content
       /\ Len(plBody.history) = m
       /\ \A i \in 1..m :
            /\ DOMAIN plBody.history[i] = {"role", "content"}
            /\ plBody.history[i].role = plHistory[n - m + i].role
            /\ plBody.history[i].content = plHistory[n - m + i].content

\* C17 witness: a body was built from a session history of more than
\* PayloadTurns turns.
C17_Witness ==
  /\ plPc = "sent"
  /\ Len(plHistory) > PayloadTurns
  /\ Len(plBody.history) = PayloadTurns

\* The command gets past the safe list and matches a danger pattern.
ReachesDangerTier(command) ==
  LET trimmed == Trim(command)
  IN /\ BaseCmd(trimmed) \notin SafeCommands
     /\ trimmed \notin SafeCommands
     /\ DangerousPatterns(trimmed)

\* The calls of approve made for the request, in order.
DecisionsFor(req) ==
  SelectSeq(permLog, LAMBDA e : e.op = "approve" /\ e.tool = req.tool /\ e.input = req.input)

\* C18: a bash command that matches a danger pattern needs approval while no
\* decision has been recorded for it, and once approve has recorded an allow
\* for it every check of the identical command yields allowed.
C18_DangerApprovalSticks ==
  \A req \in CheckedRequests :
    (req.tool = "bash" /\ ReachesDangerTier(CommandOf(req))) =>
      /\ (DecisionsFor(req) = <<>>)
           => Check(approvals, req.tool, req.input) = "needs_approval"
      /\ (\E i \in 1..Len(DecisionsFor(req)) :
            DecisionsFor(req)[i].allowed /\ ~DecisionsFor(req)[i].threw)
           => Check(approvals, req.tool, req.input) = "allowed"

\* The outcome that a decision stands for.
OutcomeOf(allowed) == IF allowed THEN "allowed" ELSE "denied"

\* C19: once approve has recorded a first decision for a tool and input,
\* every later check of that tool and input returns that decision, whatever
\* calls of approve and approveCommand follow.
C19_FirstDecisionIsPermanent ==
  \A req \in PermRequests :
    LET decisions == DecisionsFor(req)
    IN (/\ decisions # <<>>
        /\ \A i \in 1..Len(permLog) : ~permLog[i].threw
        /\ req.tool = "bash" => Trim(CommandOf(req)) = CommandOf(req))
         => Check(approvals, req.tool, req.input) = OutcomeOf(decisions[1].allowed)

\* No key is in the list twice.
NoDuplicates(list) ==
  \A i, j \in 1..Len(list) : list[i] = list[j] => i = j

\* C20: approve called twice in a row with the same tool, input and decision
\* leaves the lists in memory and in the file as the first call left them,
\* with no key twice, and every check as after the first call.
C20_ApproveIdempotent ==
  /\ NoDuplicates(approvals.allowed) /\ NoDuplicates(approvals.denied)
  /\ \A req \in PermRequests, allowed \in BOOLEAN, o1, o2 \in WriteOutcomes :
       LET once == ApproveEffect(approvals, permFile, req.tool, req.input, allowed, o1)
           twice == ApproveEffect(once.approvals, once.file, req.tool, req.input, allowed, o2)
       IN /\ twice = once
          /\ NoDuplicates(once.approvals.allowed)
          /\ NoDuplicates(once.approvals.denied)
          /\ \A c \in PermRequests :
               Check(twice.approvals, c.tool, c.input) = Check(once.approvals, c.tool, c.input)

\* The last two calls were the same approve, and its key is recorded once.
C20_Witness ==
  /\ Len(permLog) >= 2
  /\ LET e1 == permLog[Len(permLog) - 1]
         e2 == permLog[Len(permLog)]
         list == approvals[OutcomeOf(e2.allowed)]
         key == ApproveKey(e2.tool, e2.input)
     IN /\ e1.op = "approve" /\ e2.op = "approve"
        /\ e1.tool = e2.tool /\ e1.input = e2.input /\ e1.allowed = e2.allowed
        /\ ~e1.threw /\ ~e2.threw
        /\ Cardinality({i \in 1..Len(list) : list[i] = key}) = 1
        /\ permFile.exists /\ permFile.content = approvals

\* The two inputs have the same fields with the same values.
SameFields(a, b) == Len(a) = Len(b) /\ Range(a) = Range(b)

\* C21: a decision recorded for a tool and input settles the check of every
\* input that has the same fields and values in another order.
C21_KeyIgnoresFieldOrder ==
  \A req \in PermRequests, c \in CheckedRequests :
    (/\ c.tool = req.tool
     /\ SameFields(c.input, req.input)
     /\ DecisionsFor(req) # <<>>)
      => Check(approvals, c.tool, c.input) = Check(approvals, req.tool, req.input)

\* approvals as _load reads them from the file.
Loaded(file) == IF file.exists THEN file.content ELSE NoApprovals

\* The key and the list of a call of approve or approveCommand.
KeyOfCall(e) ==
  IF e.op = "approveCommand" THEN <<"bash_cmd", ":">> \o CommandOf(e)
  ELSE ApproveKey(e.tool, e.input)

\* C22: when approve or approveCommand has returned, the file holds what
\* memory holds, and every key recorded by a call that returned is in it.
C22_DecisionsDurable ==
  (permLog # <<>> /\ ~permLog[Len(permLog)].threw) =>
    /\ Loaded(permFile) = approvals
    /\ \A i \in 1..Len(permLog) :
         ~permLog[i].threw =>
           Includes(Loaded(permFile)[OutcomeOf(permLog[i].allowed)], KeyOfCall(permLog[i]))

\* The last call was check, of the given tools.
LastCall == permLog[Len(permLog)]

Checked(tools) ==
  permLog # <<>> /\ LastCall.op = "check" /\ LastCall.tool \in tools

\* The outcome that the decisions recorded under a key give.
Decided(app, key) ==
  IF Includes(app.allowed, key) THEN "allowed"
  ELSE IF Includes(app.denied, key) THEN "denied"
  ELSE "needs_approval"

\* C23 as stated: _checkBash is the cascade safe list, danger patterns with
\* the decisions keyed by the exact command string, common tools,
\* needs_approval, for every command and every store.
C23_FourStepCascade ==
  Checked({"bash"}) =>
    LET command == CommandOf(LastCall)
        trimmed == Trim(command)
        baseCmd == BaseCmd(trimmed)
    IN LastCall.result =
         IF baseCmd \in SafeCommands \/ trimmed \in SafeCommands THEN "allowed"
         ELSE IF DangerousPatterns(command)
         THEN Decided(approvals, <<"bash", ":">> \o command)
         ELSE IF baseCmd \in CommonCommands THEN "allowed"
         ELSE "needs_approval"

\* C23, amended: the empty command is denied; otherwise the safe list gives
\* allowed; otherwise a danger pattern leaves the outcome to the decisions keyed
\* by the trimmed command; otherwise a recorded approval of the leading token or
\* a recorded decision for the trimmed command settles it; otherwise the common
\* tools are allowed; otherwise needs_approval.
C23_CascadeWithDecisions ==
  Checked({"bash"}) =>
    LET command == CommandOf(LastCall)
        trimmed == Trim(command)
        baseCmd == BaseCmd(trimmed)
        result == LastCall.result
        empty == command = <<>>
        safe == baseCmd \in SafeCommands \/ trimmed \in SafeCommands
        danger == DangerousPatterns(trimmed)
        exact == Decided(approvals, <<"bash", ":">> \o trimmed)
        base == Includes(approvals.allowed, <<"bash_cmd", ":">> \o baseCmd)
        common == baseCmd \in CommonCommands
    IN /\ empty => result = "denied"
       /\ (~empty /\ safe) => result = "allowed"
       /\ (~empty /\ ~safe /\ danger) => result = exact
       /\ (~empty /\ ~safe /\ ~danger /\ base) => result = "allowed"
       /\ (~empty /\ ~safe /\ ~danger /\ ~base /\ exact # "needs_approval")
            => result = exact
       /\ (~empty /\ ~safe /\ ~danger /\ ~base /\ exact = "needs_approval" /\ common)
            => result = "allowed"
       /\ (~empty /\ ~safe /\ ~danger /\ ~base /\ exact = "needs_approval" /\ ~common)
            => result = "needs_approval"

\* A command that is neither safe, dangerous nor common was checked with an
\* allow recorded for it, and a common command with a deny recorded for it.
C23_Witness ==
  /\ Checked({"bash"})
  /\ LET trimmed == Trim(CommandOf(LastCall))
         baseCmd == BaseCmd(trimmed)
     IN /\ CommandOf(LastCall) # <<>>
        /\ baseCmd \notin SafeCommands /\ trimmed \notin SafeCommands
        /\ ~DangerousPatterns(trimmed)
        /\ \/ /\ baseCmd \notin CommonCommands
              /\ Includes(approvals.allowed, <<"bash", ":">> \o trimmed)
              /\ LastCall.result = "allowed"
           \/ /\ baseCmd \in CommonCommands
              /\ Includes(approvals.denied, <<"bash", ":">> \o trimmed)
              /\ LastCall.result = "denied"

\* The key that _checkApproval looks up for the last call.
LastKey == <<LastCall.tool, ":">> \o StringifyInput(LastCall.input)

\* C24: check('delete_file', input) returns allowed when input.recursive is
\* not set and no decision is recorded, and what the decision records say
\* (needs_approval without one) when input.recursive is set.
C24_DeleteFileConditional ==
  Checked({"delete_file"}) =>
    /\ (/\ GetField(LastCall.input, "recursive") # "true"
        /\ Decided(approvals, LastKey) = "needs_approval")
         => LastCall.result = "allowed"
    /\ GetField(LastCall.input, "recursive") = "true"
         => LastCall.result = Decided(approvals, LastKey)

\* C25: check of a safe tool returns allowed for every input and every
\* store, and no call of check or describeAction changes the approvals in
\* memory or in the file.
C25_SafeToolsAndFrame ==
  [][ /\ approvals' = approvals
      /\ permFile' = permFile
      /\ Checked(SafeTools)' => LastCall'.result = "allowed" ]_vars

\* A safe tool was checked while a deny was recorded for that tool and input.
C25_Witness ==
  /\ Checked(SafeTools)
  /\ Includes(approvals.denied, LastKey)
  /\ ~Includes(approvals.allowed, LastKey)
  /\ LastCall.result = "allowed"
  /\ permFile.exists /\ permFile.content = approvals

\* The tools of the requests that are neither safe nor moderate nor bash.
OtherTools ==
  {r.tool : r \in CheckedRequests} \ (SafeTools \cup ModerateTools \cup {"bash"})

\* C26: for a tool that is neither safe nor moderate nor bash, check returns
\* needs_approval when no decision is recorded for the tool and input, allowed
\* when an allow is recorded, denied when a deny and no allow is recorded, and
\* never allowed without a recorded allow.
C26_OtherToolsNeedDecision ==
  Checked(OtherTools) =>
    LET allow == Includes(approvals.allowed, LastKey)
        deny == Includes(approvals.denied, LastKey)
    IN /\ (~allow /\ ~deny) => LastCall.result = "needs_approval"
       /\ allow => LastCall.result = "allowed"
       /\ (deny /\ ~allow) => LastCall.result = "denied"
       /\ LastCall.result = "allowed" => allow

\* A tool on no list was checked with nothing recorded for it, or kill_process
\* with a decision recorded for the same fields in another order.
C26_Witness ==
  /\ Checked(OtherTools)
  /\ LastCall.result = "needs_approval"
  /\ \/ LastCall.tool = "unknown_tool" /\ approvals = NoApprovals
     \/ /\ LastCall.tool = "kill_process"
        /\ \E r \in CheckedRequests :
             /\ r.tool = "kill_process" /\ r.input # LastCall.input
             /\ Includes(approvals.allowed, ApproveKey(r.tool, r.input))

\* C29: a bash command that matches a danger pattern is not allowed unless
\* an allow for that command is recorded.
C29_DangerNeverAllowed ==
  (/\ Checked({"bash"})
   /\ DangerousPatterns(CommandOf(LastCall))
   /\ ~Includes(approvals.allowed, <<"bash", ":">> \o CommandOf(LastCall))
   /\ ~Includes(approvals.allowed, <<"bash", ":">> \o Trim(CommandOf(LastCall))))
    => LastCall.result # "allowed"

\* The unit of task t runs up to its agent call in this step.
CallsAgentNow(t) ==
  /\ t \in DOMAIN tasks
  /\ tasks[t].state = "queued"
  /\ tasks'[t].state = "awaiting"

\* C27: a message on one channel is processed against the history that the
\* chat's earlier message on another channel built: the agent call of the later
\* message carries the reply given to the earlier one.
C27_ChannelsShareHistory ==
  [][ \A t1, t2 \in DOMAIN tasks :
        (/\ tasks[t1].channel # tasks[t2].channel
         /\ tasks[t1].outcome = "replied"
         /\ CallsAgentNow(t2))
          => \E i \in 1..Len(tasks'[t2].body.history) :
               tasks'[t2].body.history[i] =
                 [role |-> "assistant", content |-> tasks[t1].result.reply] ]_vars

\* The turns appended for the units of a key, in the order the units ran: the
\* event's turn (line 208) and, when the agent replied, the reply (line 256).
RECURSIVE AppendedBy(_)
AppendedBy(ts) ==
  IF ts = <<>> THEN <<>>
  ELSE LET tk == tasks[Head(ts)]
       IN <<[role |-> "user", content |-> tk.text]>>
          \o (IF tk.outcome \in {"replied", "threw"}
              THEN <<[role |-> "assistant", content |-> ReplyOf(Head(ts))]>>
              ELSE <<>>)
          \o AppendedBy(Tail(ts))

Appended(k) == AppendedBy(startLog[k])

\* The history the key has: the cached one, or the one its file loads as.
Retained(k) ==
  IF sessions[k] # 0 THEN heap[sessions[k]].history
  ELSE SessionFromFile(disk[SessionPath(k)], now).history

RECURSIVE Reduced(_)
Reduced(history) ==
  IF history = <<>> THEN <<>>
  ELSE <<ReduceTurn(Head(history))>> \o Reduced(Tail(history))

IsSuffix(a, b) ==
  Len(a) <= Len(b) /\ SubSeq(b, Len(b) - Len(a) + 1, Len(b)) = a

\* C28: the history retained for a key, in memory or in its file once the
\* key is evicted, is a contiguous suffix of the turns appended for the key,
\* whenever no unit of the key is in its agent call.
C28_HistoryIsSuffix ==
  \A chat \in MultiChats :
    LET k == SessionKey(chat.channel, chat.chatId)
    IN (\A t \in DOMAIN tasks : tasks[t].key = k => tasks[t].state # "awaiting")
         => IsSuffix(Reduced(Retained(k)), Appended(k))

\* C30: an event's unit makes its agent call at most once, and once the
\* call has ended never again; what handleMessage returns for the event is
\* nothing, or the reply of that event's call with that event's session key.
C30_OneCallOwnReply ==
  [][ \A t \in DOMAIN tasks :
        /\ CallsAgentNow(t) => ~Executed(t)
        /\ tasks[t].state = "awaiting" => tasks'[t].state \in {"awaiting", "settled"}
        /\ tasks[t].state = "settled" => tasks'[t] = tasks[t]
        /\ (tasks'[t].state = "settled" /\ tasks'[t].result # NoResult)
             => /\ tasks[t].state \in {"awaiting", "settled"}
                /\ tasks'[t].result =
                     [ok |-> TRUE, reply |-> ReplyOf(t), sessionKey |-> tasks[t].key] ]_vars

\* Two events of different keys, submitted at the same time, have both been
\* answered, and both callers have received their own replies.
C30_Witness ==
  \E t1, t2 \in DOMAIN tasks :
    /\ t1 < t2 /\ tasks[t1].key # tasks[t2].key
    /\ tasks[t1].outcome = "replied" /\ tasks[t2].outcome = "replied"
    /\ tasks[t1].result.reply = ReplyOf(t1) /\ tasks[t2].result.reply = ReplyOf(t2)
    /\ t1 \in Range(deliverLog[tasks[t1].key])
    /\ t2 \in Range(deliverLog[tasks[t2].key])
    /\ tasks[t2].timestamp = tasks[t1].timestamp

\* The unit's agent call returns with a reply in this step.
RepliesNow(t) ==
  /\ t \in DOMAIN tasks
  /\ tasks[t].state = "awaiting"
  /\ tasks'[t].outcome \in {"replied", "threw"}

\* A reply with a token has been received for the key.
TokenReceived(k) ==
  \E u \in DOMAIN tasks : tasks[u].key = k /\ tasks[u].token # Null

\* C31: every agent call carries the token its session holds, which is null as
\* long as no reply of the key has carried one; a reply with a token makes that
\* token the session's, and a reply without one leaves the session's token as
\* it was.
C31_TokenCarriedAndReplaced ==
  [][\A t \in DOMAIN tasks :
       /\ CallsAgentNow(t) =>
            /\ tasks'[t].body.conversationId = heap'[tasks'[t].sess].conversationId
            /\ ~TokenReceived(tasks[t].key) => tasks'[t].body.conversationId = Null
       /\ RepliesNow(t) =>
            heap'[tasks[t].sess].conversationId =
              IF tasks'[t].token # Null THEN tasks'[t].token
              ELSE heap[tasks[t].sess].conversationId]_vars

\* A reply brought a token, the next unit of the key was answered without one,
\* and the session still holds the token of the first.
C31_Witness ==
  \E t, u \in DOMAIN tasks :
    /\ tasks[t].key = tasks[u].key
    /\ tasks[t].token # Null
    /\ tasks[u].outcome = "replied" /\ tasks[u].token = Null
    /\ tasks[u].prev = t
    /\ sessions[tasks[u].key] # 0
    /\ heap[sessions[tasks[u].key]].conversationId = tasks[t].token

\* The token of the last turn of the history that is an assistant turn with a
\* token, null when there is none.
MostRecentToken(history) ==
  LET idx == { i \in 1..Len(history) :
                 /\ history[i].role = "assistant"
                 /\ history[i].conversationId \notin {Undef, Null, ""} }
  IN IF idx = {} THEN Null
     ELSE history[CHOOSE i \in idx : \A j \in idx : j <= i].conversationId

EndsWithoutReply(t) ==
  /\ t \in DOMAIN tasks
  /\ tasks[t].state # "settled"
  /\ tasks'[t].state = "settled"
  /\ tasks'[t].outcome \notin {"threw", "skipped"}
  /\ tasks'[t].result.reply = <<>>

\* The session the unit works on, before this step: the object it holds while
\* it awaits, and otherwise what _loadSession returns.
SessionOf(t) ==
  IF tasks[t].state = "awaiting" THEN heap[tasks[t].sess]
  ELSE IF sessions[tasks[t].key] # 0 THEN heap[sessions[tasks[t].key]]
  ELSE SessionFromFile(disk[SessionPath(tasks[t].key)], now)

AssistantTurns(history) == SelectSeq(history, LAMBDA h : h.role = "assistant")

ReplyFields(d) == <<d.reply, d.response, d.text>>

TokenFields(d) == <<d.conversationId, d.conversation_id>>

Least(S) == CHOOSE i \in S : \A j \in S : i <= j

\* The unit whose call returned in this step ended as a no-op: no reply, no
\* error, the session and the files as they were.
NoOp(t) ==
  /\ tasks'[t].outcome = "noreply"
  /\ tasks'[t].result = NoResult
  /\ tasks'[t].inner = "fulfilled"
  /\ heap'[tasks[t].sess] = heap[tasks[t].sess]
  /\ disk' = disk

\* The unit whose call returned in this step took the reply and the token: the
\* reply is the assistant turn added and, unless the save failed, the result.
Took(t, reply, token) ==
  /\ tasks'[t].outcome \in {"replied", "threw"}
  /\ tasks'[t].outcome = "replied" => tasks'[t].result.reply = reply
  /\ LET history == heap'[tasks[t].sess].history
     IN history[Len(history)].role = "assistant" /\ history[Len(history)].content = reply
  /\ tasks'[t].token = token

\* C34 as stated: the reply is the value of the first of reply, response, text
\* that is present and the token the first present of conversationId,
\* conversation_id; a response whose reply, so read, is missing or empty is a
\* no-op.
C34_FirstPresentWins ==
  [][lastData' # lastData =>
       LET t == lastData'.task
           d == lastData'.data
           rs == { i \in 1..3 : ReplyFields(d)[i].present }
           ts == { i \in 1..2 : TokenFields(d)[i] # Undef }
           reply == IF rs = {} THEN <<>> ELSE ReplyFields(d)[Least(rs)].value
           token == IF ts = {} THEN Null ELSE TokenFields(d)[Least(ts)]
       IN IF reply = <<>> THEN NoOp(t) ELSE Took(t, reply, token)]_vars

\* C34, amended: the reply is the value of the first of reply, response, text
\* that is present and not empty, and the token the first of conversationId,
\* conversation_id that is present and not empty, null when there is none; a
\* response in which no reply field is present and not empty is a no-op: no
\* reply, no error, no assistant turn, nothing written.
C34_FirstTruthyWins ==
  [][lastData' # lastData =>
       LET t == lastData'.task
           d == lastData'.data
           rs == { i \in 1..3 : ReplyFields(d)[i].present /\ ReplyFields(d)[i].value # <<>> }
           ts == { i \in 1..2 : TokenFields(d)[i] \notin {Undef, Null, ""} }
           token == IF ts = {} THEN Null ELSE TokenFields(d)[Least(ts)]
       IN IF rs = {} THEN NoOp(t) ELSE Took(t, ReplyFields(d)[Least(rs)].value, token)]_vars

\* A body whose reply field is the empty string and whose response field has a
\* value was received, and the unit replied with the value of response.
C34_Witness ==
  /\ lastData.task # 0
  /\ lastData.data.reply = Str(<<>>)
  /\ tasks[lastData.task].outcome = "replied"
  /\ tasks[lastData.task].result.reply = lastData.data.response.value

\* The last two turns of a history are the reply given to unit t and the text
\* of unit u.
EndsWithReplyThenText(history, t, u) ==
  /\ Len(history) >= 2
  /\ history[Len(history) - 1].role = "assistant"
  /\ history[Len(history) - 1].content = ReplyOf(t)
  /\ history[Len(history)].role = "user"
  /\ history[Len(history)].content = tasks[u].text

\* C35: when the sweep has removed the cache entry of a key during the agent
\* call of its unit and the unit then ends with a reply and a completed save,
\* the session object of the unit is the cache entry again, its history is the
\* one it had, ending with the unit's user turn, with the assistant turn added,
\* and the file holds that history; and the next unit of the key starts on a
\* history whose last turns are that reply and its own user turn.
C35_EvictedUnitLosesNoTurn ==
  [][/\ \A t \in evicted :
          (tasks[t].state = "awaiting" /\ tasks'[t].outcome = "replied") =>
            LET before == heap[tasks[t].sess].history
                after == heap'[tasks[t].sess].history
            IN /\ sessions'[tasks[t].key] = tasks[t].sess
               /\ before # <<>>
               /\ before[Len(before)].role = "user"
               /\ before[Len(before)].content = tasks[t].text
               /\ Len(after) = Len(before) + 1
               /\ SubSeq(after, 1, Len(before)) = before
               /\ after[Len(after)].role = "assistant"
               /\ after[Len(after)].content = ReplyOf(t)
               /\ disk'[SessionPath(tasks[t].key)] =
                    [exists |-> TRUE, data |-> SessionData(after)]
     /\ \A u \in DOMAIN tasks :
          (CallsAgentNow(u) /\ tasks[u].prev \in evicted
             /\ tasks[tasks[u].prev].outcome = "replied") =>
            /\ EndsWithReplyThenText(heap'[tasks'[u].sess].history, tasks[u].prev, u)
            /\ EndsWithReplyThenText(tasks'[u].body.history, tasks[u].prev, u)]_vars

\* The sweep removed the entry of a key during the agent call of its unit, the
\* unit replied, and the next unit of the key is in its agent call with that
\* reply in the history it sends.
C35_Witness ==
  \E u \in DOMAIN tasks :
    /\ tasks[u].state = "awaiting"
    /\ tasks[u].prev \in evicted
    /\ tasks[tasks[u].prev].outcome = "replied"
    /\ EndsWithReplyThenText(tasks[u].body.history, tasks[u].prev, u)

\* The key under which check looks a decision up: _checkBash trims the command
\* (lines 138, 146, 158); the other tools are keyed by the serialised input
\* (line 131).
LookupKey(toolName, input) ==
  IF toolName = "bash"
  THEN <<"bash", ":">> \o Trim(GetField(input, "command"))
  ELSE <<toolName, ":">> \o StringifyInput(input)

\* C36: the key that a call of approve records is the key under which check
\* looks the decision up for the same tool and input, for bash commands with
\* leading or trailing whitespace as for the others.
C36_ApproveAndCheckSameKey ==
  \A i \in 1..Len(permLog) :
    permLog[i].op = "approve" =>
      ApproveKey(permLog[i].tool, permLog[i].input)
        = LookupKey(permLog[i].tool, permLog[i].input)

\* C37: with an approval of the leading token recorded by approveCommand, a
\* bash command that matches no danger pattern is allowed, also when a deny is
\* recorded for the command itself; a command that matches a danger pattern
\* (and does not start with a safe command) gets what the decisions recorded
\* for the command itself say, needs_approval when there is none.
C37_BaseApprovalScope ==
  (/\ Checked({"bash"})
   /\ CommandOf(LastCall) # <<>>
   /\ Includes(approvals.allowed,
               <<"bash_cmd", ":">> \o BaseCmd(Trim(CommandOf(LastCall))))) =>
    LET trimmed == Trim(CommandOf(LastCall))
    IN /\ ~DangerousPatterns(trimmed) => LastCall.result = "allowed"
       /\ ReachesDangerTier(CommandOf(LastCall)) =>
            LastCall.result = Decided(approvals, <<"bash", ":">> \o trimmed)

\* A command with no danger pattern was checked and allowed with its leading
\* token approved and a deny recorded for the command itself.
C37_Witness ==
  /\ Checked({"bash"})
  /\ LET trimmed == Trim(CommandOf(LastCall))
     IN /\ ~DangerousPatterns(trimmed)
        /\ BaseCmd(trimmed) \notin SafeCommands \cup CommonCommands
        /\ Includes(approvals.allowed, <<"bash_cmd", ":">> \o BaseCmd(trimmed))
        /\ Includes(approvals.denied, <<"bash", ":">> \o trimmed)
        /\ LastCall.result = "allowed"
====
